---------------------------- MODULE Spec2Model ----------------------------
(***************************************************************************)
(* Natural-language-to-SQL pipeline: Lexer -> Parser -> SQL generator.     *)
(*                                                                         *)
(* A text is a sequence of one-character strings.  Positions are 0-based   *)
(* as in the Python source, so the character at position p of t is t[p+1]. *)
(* A Python value is a record [kind, text]: kind is "str", "int", "float"  *)
(* or "none", text is what str(value) gives.                               *)
(***************************************************************************)
EXTENDS Integers, Sequences, FiniteSets, TLC

VARIABLES
    text,       \* Lexer.original_text: the input of the run
    ltext,      \* Lexer.text: the preprocessed text that is scanned
    pos,        \* Lexer.pos
    tokens,     \* Lexer.tokens
    phase,      \* where the run is: "new", "scan", "lexed", "parsed", "done", "error"
    ast,        \* the AST returned by Parser.parse (NoAst before)
    sql,        \* the string returned by ast_to_sql
    error,      \* the exception that ended the run ("" when none)
    pipelines,  \* the NLToSQLPipeline instances: last_tokens, last_ast, last_sql of each
    calls,      \* the process calls in progress: each caller's position and locals
    shared,     \* TRUE when the callers use one instance, FALSE when each has its own
    ret         \* the last call that returned: its name, arguments and outcome

runVars  == <<text, ltext, pos, tokens, phase, ast, sql, error>>
callVars == <<pipelines, calls, shared, ret>>
vars == <<text, ltext, pos, tokens, phase, ast, sql, error, pipelines, calls, shared, ret>>

-----------------------------------------------------------------------------
(* Characters                                                              *)

UpperChars == <<"A","B","C","D","E","F","G","H","I","J","K","L","M","N","O","P","Q","R","S","T","U","V","W","X","Y","Z">>
LowerChars == <<"a","b","c","d","e","f","g","h","i","j","k","l","m","n","o","p","q","r","s","t","u","v","w","x","y","z">>
DigitChars == <<"0","1","2","3","4","5","6","7","8","9">>

Range(s) == {s[i] : i \in 1..Len(s)}

UpperSet == Range(UpperChars)
LowerSet == Range(LowerChars)
DigitSet == Range(DigitChars)

\* The characters of the model are those of Latin-1, U+0001 to U+00FF, the
\* characters a string of the module can hold.

\* the letters of Latin-1 with a lower-case form, and their lower-case forms
Latin1Upper == <<"À","Á","Â","Ã","Ä","Å","Æ","Ç","È","É","Ê","Ë","Ì","Í","Î","Ï","Ð","Ñ","Ò","Ó","Ô","Õ","Ö","Ø","Ù","Ú","Û","Ü","Ý","Þ">>
Latin1Lower == <<"à","á","â","ã","ä","å","æ","ç","è","é","ê","ë","ì","í","î","ï","ð","ñ","ò","ó","ô","õ","ö","ø","ù","ú","û","ü","ý","þ">>

\* the letters of Latin-1 that str.lower leaves as they are: U+00AA, U+00B5,
\* U+00BA, U+00DF, U+00FF
Latin1Uncased == {"ª", "µ", "º", "ß", "ÿ"}

\* the digits that are not decimal digits: U+00B2, U+00B3, U+00B9
SuperscriptDigits == {"²", "³", "¹"}

\* the numeric characters that are not digits: U+00BC, U+00BD, U+00BE
VulgarFractions == {"¼", "½", "¾"}

\* the whitespace other than space, tab, LF, CR: U+000B, U+000C, U+001C to
\* U+001F, U+0085, U+00A0
OtherSpaces == {"", "\f", "", "", "", "", "", " "}

Latin1UpperSet == Range(Latin1Upper)
DigitCharSet == DigitSet \cup SuperscriptDigits
AlphaSet == UpperSet \cup LowerSet \cup Latin1UpperSet \cup Range(Latin1Lower) \cup Latin1Uncased
AlnumSet == AlphaSet \cup DigitCharSet \cup VulgarFractions
SpaceSet == {" ", "\t", "\n", "\r"} \cup OtherSpaces

\* str.isdecimal, str.isdigit, str.isalpha, str.isalnum, str.isspace on one
\* character
IsDecimal(c) == c \in DigitSet
IsDigit(c) == c \in DigitCharSet
IsAlpha(c) == c \in AlphaSet
IsAlnum(c) == c \in AlnumSet
IsSpace(c) == c \in SpaceSet

\* str.lower on one character
LowerChar(c) ==
    IF c \in UpperSet
    THEN LowerChars[CHOOSE i \in 1..Len(UpperChars) : UpperChars[i] = c]
    ELSE IF c \in Latin1UpperSet
    THEN Latin1Lower[CHOOSE i \in 1..Len(Latin1Upper) : Latin1Upper[i] = c]
    ELSE c

\* str.lower
Lower(t) == [i \in 1..Len(t) |-> LowerChar(t[i])]

\* t[a:b] of Python (0-based, b excluded)
Slice(t, a, b) == SubSeq(t, a + 1, b)

\* t.startswith(w, p)
StartsWithAt(t, p, w) ==
    /\ p + Len(w) <= Len(t)
    /\ Slice(t, p, p + Len(w)) = w

-----------------------------------------------------------------------------
(* Lexer tables                                                            *)

\* Lexer.KEYWORDS: word -> token type
KEYWORDS == <<
    <<<<"s","e","l","e","c","t">>, "SELECT">>, <<<<"s","h","o","w">>, "SELECT">>, <<<<"l","i","s","t">>, "SELECT">>,
    <<<<"g","e","t">>, "SELECT">>, <<<<"f","i","n","d">>, "FIND">>, <<<<"c","o","u","n","t">>, "COUNT">>,
    <<<<"s","u","m">>, "SUM">>, <<<<"i","n","s","e","r","t">>, "INSERT">>, <<<<"u","p","d","a","t","e">>, "UPDATE">>,
    <<<<"d","e","l","e","t","e">>, "DELETE">>, <<<<"r","e","m","o","v","e">>, "DELETE">>,
    <<<<"f","r","o","m">>, "FROM">>, <<<<"o","f">>, "FROM">>, <<<<"w","h","e","r","e">>, "WHERE">>,
    <<<<"a","n","d">>, "AND">>, <<<<"o","r">>, "OR">>, <<<<"o","r","d","e","r">>, "ORDER">>,
    <<<<"b","y">>, "BY">>, <<<<"g","r","o","u","p">>, "GROUP">>, <<<<"i","n","t","o">>, "INTO">>,
    <<<<"s","e","t">>, "SET">>, <<<<"v","a","l","u","e","s">>, "VALUES">>,
    <<<<"a","l","l">>, "ALL">>, <<<<"d","i","s","t","i","n","c","t">>, "DISTINCT">>, <<<<"u","n","i","q","u","e">>, "DISTINCT">>,
    <<<<"a","s","c">>, "ASC">>, <<<<"a","s","c","e","n","d","i","n","g">>, "ASC">>, <<<<"d","e","s","c">>, "DESC">>,
    <<<<"d","e","s","c","e","n","d","i","n","g">>, "DESC">>,
    <<<<"b","e","t","w","e","e","n">>, "BETWEEN">>, <<<<"i","n">>, "IN">>, <<<<"l","i","k","e">>, "LIKE">>,
    <<<<"c","o","n","t","a","i","n","s">>, "CONTAINS">>,
    <<<<"h","o","w">>, "HOW">>, <<<<"m","a","n","y">>, "MANY">>, <<<<"t","o","t","a","l">>, "TOTAL">>,
    <<<<"a","l","t","e","r">>, "ALTER">>, <<<<"t","a","b","l","e">>, "TABLE">>, <<<<"d","r","o","p">>, "DROP">>,
    <<<<"c","o","l","u","m","n">>, "COLUMN">>, <<<<"c","o","l","u","m","n","s">>, "COLUMN">>, <<<<"c","o","l">>, "COLUMN">> >>

\* Lexer.OPERATOR_PHRASES, in the order of the source list
OPERATOR_PHRASES == <<
    <<<<"g","r","e","a","t","e","r"," ","t","h","a","n"," ","o","r"," ","e","q","u","a","l"," ","t","o">>, <<">","=">>>>,
    <<<<"l","e","s","s"," ","t","h","a","n"," ","o","r"," ","e","q","u","a","l"," ","t","o">>, <<"<","=">>>>,
    <<<<"g","r","e","a","t","e","r"," ","t","h","a","n">>, <<">">>>>,
    <<<<"m","o","r","e"," ","t","h","a","n">>, <<">">>>>,
    <<<<"l","e","s","s"," ","t","h","a","n">>, <<"<">>>>,
    <<<<"i","s"," ","e","q","u","a","l"," ","t","o">>, <<"=">>>>,
    <<<<"e","q","u","a","l"," ","t","o">>, <<"=">>>>,
    <<<<"e","q","u","a","l","s">>, <<"=">>>>,
    <<<<"e","q","u","a","l">>, <<"=">>>>,
    <<<<"s","a","m","e"," ","a","s">>, <<"=">>>>,
    <<<<"n","o","t"," ","e","q","u","a","l"," ","t","o">>, <<"!","=">>>>,
    <<<<"n","o","t"," ","e","q","u","a","l">>, <<"!","=">>>>,
    <<<<"d","i","f","f","e","r","e","n","t"," ","f","r","o","m">>, <<"!","=">>>> >>

-----------------------------------------------------------------------------
(* Lexer._preprocess                                                       *)

AllSpace(t) == \A i \in 1..Len(t) : IsSpace(t[i])

\* t from its first character that is not whitespace
LStrip(t) ==
    IF AllSpace(t) THEN <<>>
    ELSE SubSeq(t, CHOOSE i \in 1..Len(t) : ~IsSpace(t[i]) /\ \A j \in 1..(i - 1) : IsSpace(t[j]), Len(t))

\* t up to its last character that is not whitespace
RStrip(t) ==
    IF AllSpace(t) THEN <<>>
    ELSE SubSeq(t, 1, CHOOSE i \in 1..Len(t) : ~IsSpace(t[i]) /\ \A j \in (i + 1)..Len(t) : IsSpace(t[j]))

\* str.strip
Strip(t) == RStrip(LStrip(t))

\* old stands at index i of t (1-based)
OccursAt(t, old, i) ==
    /\ i + Len(old) - 1 <= Len(t)
    /\ t[i] = old[1]
    /\ SubSeq(t, i, i + Len(old) - 1) = old

Occurs(t, old) == \E i \in 1..Len(t) : OccursAt(t, old, i)

\* the index of the leftmost occurrence of old in t
FirstOcc(t, old) ==
    CHOOSE i \in 1..Len(t) :
        OccursAt(t, old, i) /\ \A j \in 1..(i - 1) : ~OccursAt(t, old, j)

\* str.replace(old, new): the non-overlapping occurrences of old, left to
\* right, for a non-empty old
RECURSIVE Replace(_, _, _)
ReplaceAt(t, old, new, i) ==
    SubSeq(t, 1, i - 1) \o new \o Replace(SubSeq(t, i + Len(old), Len(t)), old, new)

Replace(t, old, new) ==
    IF t = <<>> \/ ~Occurs(t, old) THEN t
    ELSE ReplaceAt(t, old, new, FirstOcc(t, old))

\* the loop "for phrase, symbol in OPERATOR_PHRASES: t = t.replace(...)",
\* from table entry i on
RECURSIVE ReplacePhrases(_, _)
ReplacePhrases(t, i) ==
    IF t = <<>> \/ i > Len(OPERATOR_PHRASES) THEN t
    ELSE ReplacePhrases(
            Replace(t, OPERATOR_PHRASES[i][1],
                    <<" ">> \o OPERATOR_PHRASES[i][2] \o <<" ">>),
            i + 1)

\* the k-th smallest member of a set of numbers
Nth(S, k) == CHOOSE i \in S : Cardinality({j \in S : j <= i}) = k

\* the characters of t, each marked when it does not follow whitespace
Marked(t) == [i \in 1..Len(t) |-> [ch |-> t[i], first |-> i = 1 \/ ~IsSpace(t[i - 1])]]

\* what re.sub(r'\s+', ' ', t) keeps: every character that is not whitespace,
\* and the first character of every run of whitespace
KeptBySub(c) == ~IsSpace(c.ch) \/ c.first

\* the kept characters, a space for each kept whitespace character
AsSpaces(cs) == [k \in 1..Len(cs) |-> IF IsSpace(cs[k].ch) THEN " " ELSE cs[k].ch]

\* re.sub(r'\s+', ' ', t)
CollapseSpaces(t) == AsSpaces(SelectSeq(Marked(t), KeptBySub))

Preprocess(t) == CollapseSpaces(ReplacePhrases(Strip(Lower(t)), 1))

-----------------------------------------------------------------------------
(* Lexer scanning.  Each reader takes the text and the position and gives  *)
(* the token read and the position after it.                               *)

Token(type, value, position) ==
    [type |-> type, value |-> value, position |-> position]

\* Lexer._current_char at position p: the character, or None past the end
HasChar(t, p) == p < Len(t)
CharAt(t, p) == t[p + 1]

\* Lexer._skip_whitespace: the position after the whitespace at p
InWhitespace(t, p) == HasChar(t, p) /\ IsSpace(CharAt(t, p))

SkipWhitespace(t, p) ==
    IF ~InWhitespace(t, p) THEN p
    ELSE CHOOSE e \in p..Len(t) : ~InWhitespace(t, e) /\ \A k \in p..(e - 1) : InWhitespace(t, k)

\* the end of the run of characters satisfying the loop condition of _read_number
InNumber(t, p) == HasChar(t, p) /\ (IsDigit(CharAt(t, p)) \/ CharAt(t, p) = ".")

NumberEnd(t, p) ==
    IF ~InNumber(t, p) THEN p
    ELSE CHOOSE e \in p..Len(t) : ~InNumber(t, e) /\ \A k \in p..(e - 1) : InNumber(t, k)

\* Lexer._read_number
ReadNumber(t, p) ==
    LET e == NumberEnd(t, p)
    IN  [tok |-> Token("NUMBER", Slice(t, p, e), p), pos |-> e]

\* the end of the run of characters other than the quote character
InString(t, p, q) == HasChar(t, p) /\ CharAt(t, p) # q

StringEnd(t, p, q) ==
    IF ~InString(t, p, q) THEN p
    ELSE CHOOSE e \in p..Len(t) : ~InString(t, e, q) /\ \A k \in p..(e - 1) : InString(t, k, q)

\* _read_string that leaves the quote character where it found it
ReadStringStuck(t, p) == [tok |-> Token("STRING", <<>>, p), pos |-> p]

\* Lexer._read_string
ReadString(t, p) ==
    LET q == CharAt(t, p)
        e == StringEnd(t, p + 1, q)
    IN  [tok |-> Token("STRING", Slice(t, p + 1, e), p),
         pos |-> IF HasChar(t, e) /\ CharAt(t, e) = q THEN e + 1 ELSE e]

\* the loop condition of _read_word
InWord(t, p) == HasChar(t, p) /\ (IsAlnum(CharAt(t, p)) \/ CharAt(t, p) = "_")

\* the end of the run of characters satisfying it
WordEnd(t, p) ==
    IF ~InWord(t, p) THEN p
    ELSE CHOOSE e \in p..Len(t) : ~InWord(t, e) /\ \A k \in p..(e - 1) : InWord(t, k)

\* the lookup "lower_result in self.KEYWORDS"
KeywordType(w) ==
    IF \E i \in 1..Len(KEYWORDS) : KEYWORDS[i][1] = w
    THEN KEYWORDS[CHOOSE i \in 1..Len(KEYWORDS) : KEYWORDS[i][1] = w][2]
    ELSE "IDENTIFIER"

\* Lexer._read_word
ReadWord(t, p) ==
    LET e == WordEnd(t, p)
        w == Slice(t, p, e)
    IN  [tok |-> Token(KeywordType(Lower(w)), w, p), pos |-> e]

\* the dict "operators" of _read_operator
SingleOperator(c) ==
    CASE c = "=" -> "EQUALS"
      [] c = ">" -> "GREATER"
      [] c = "<" -> "LESS"
      [] c = "," -> "COMMA"
      [] c = "(" -> "LPAREN"
      [] c = ")" -> "RPAREN"
      [] c = "*" -> "STAR"
      [] OTHER   -> "UNKNOWN"

\* _read_operator without its two-character branch
ReadOperatorSingleOnly(t, p) ==
    LET c == CharAt(t, p)
    IN  [tok |-> Token(SingleOperator(c), <<c>>, p), pos |-> p + 1]

\* Lexer._read_operator
ReadOperator(t, p) ==
    LET c == CharAt(t, p)
        nextIsEq == HasChar(t, p + 1) /\ CharAt(t, p + 1) = "="
    IN  IF c = ">" /\ nextIsEq
        THEN [tok |-> Token("GREATER_EQ", <<">","=">>, p), pos |-> p + 2]
        ELSE IF c = "<" /\ nextIsEq
        THEN [tok |-> Token("LESS_EQ", <<"<","=">>, p), pos |-> p + 2]
        ELSE IF c = "!" /\ nextIsEq
        THEN [tok |-> Token("NOT_EQUALS", <<"!","=">>, p), pos |-> p + 2]
        ELSE [tok |-> Token(SingleOperator(c), <<c>>, p), pos |-> p + 1]

\* the branch of the scan loop taken at a character
CharClass(c) ==
    IF IsDigit(c) THEN "number"
    ELSE IF c \in {"\"", "'"} THEN "string"
    ELSE IF IsAlpha(c) \/ c = "_" THEN "word"
    ELSE "operator"

\* one iteration of the while loop of Lexer.tokenize that reads a token, at
\* position p (after the whitespace was skipped)
ReadToken(t, p) ==
    LET k == CharClass(CharAt(t, p))
    IN  CASE k = "number"   -> ReadNumber(t, p)
          [] k = "string"   -> ReadString(t, p)
          [] k = "word"     -> ReadWord(t, p)
          [] k = "operator" -> ReadOperator(t, p)

\* a tokens list that keeps UNKNOWN tokens
AppendToken_keepUnknown(toks, tok) == Append(toks, tok)

\* the tokens list after the token was read: UNKNOWN is not appended
AppendToken(toks, tok) ==
    IF tok.type = "UNKNOWN" THEN toks ELSE Append(toks, tok)

EofToken(p) == Token("EOF", <<>>, p)

\* Lexer.tokenize run to its end from position p with the tokens toks
RECURSIVE ScanFrom(_, _, _)
ScanFrom(t, p, toks) ==
    IF p >= Len(t) THEN Append(toks, EofToken(p))
    ELSE LET s == SkipWhitespace(t, p)
         IN  IF s >= Len(t) THEN Append(toks, EofToken(s))
             ELSE LET r == ReadToken(t, s)
                  IN  ScanFrom(t, r.pos, AppendToken(toks, r.tok))

\* tokenize(text) of lexer.py: Lexer(text).tokenize()
Tokenize(t) == ScanFrom(Preprocess(t), 0, <<>>)

-----------------------------------------------------------------------------
(* Python values                                                           *)

PyStr(s)  == [kind |-> "str", text |-> s]
PyNone    == [kind |-> "none", text |-> <<"N","o","n","e">>]

\* the digits d without leading zeros, the last digit kept
StripLeadingZeros(d) ==
    IF d = <<>> THEN d
    ELSE SubSeq(d, CHOOSE i \in 1..Len(d) :
                       (d[i] # "0" \/ i = Len(d)) /\ \A j \in 1..(i - 1) : d[j] = "0",
                Len(d))

Count(t, c) == Cardinality({i \in 1..Len(t) : t[i] = c})
Contains(t, c) == \E i \in 1..Len(t) : t[i] = c
IndexOf(t, c) == CHOOSE i \in 1..Len(t) : t[i] = c /\ \A j \in 1..(i - 1) : t[j] # c

AllDigits(d) == \A i \in 1..Len(d) : IsDigit(d[i])

\* str.isdigit: non-empty and all digits
StrIsDigit(s) == s # <<>> /\ AllDigits(s)

\* sys.get_int_max_str_digits(): the longest digit string that int() converts
IntMaxStrDigits == 4300

\* int(lexeme) accepts the lexeme (the lexeme of a NUMBER token without '.'
\* is a non-empty run of digits): every digit is a decimal digit, and there
\* are no more of them than the conversion limit
IntAccepts(s) ==
    /\ s # <<>>
    /\ \A i \in 1..Len(s) : IsDecimal(s[i])
    /\ Len(s) <= IntMaxStrDigits

\* str(int(lexeme))
PyInt(s) == [kind |-> "int", text |-> StripLeadingZeros(s)]

\* a non-empty run of decimal digits, single underscores allowed between digits
DigitsUS(d) ==
    /\ d # <<>>
    /\ \A i \in 1..Len(d) : IsDecimal(d[i]) \/ d[i] = "_"
    /\ IsDecimal(d[1]) /\ IsDecimal(d[Len(d)])
    /\ \A i \in 1..(Len(d) - 1) : ~(d[i] = "_" /\ d[i + 1] = "_")

DropSign(s) == IF s # <<>> /\ Head(s) \in {"+", "-"} THEN Tail(s) ELSE s

\* the mantissa grammar of float(): D, D., D.D or .D
MantissaParts(ip, fp) ==
    /\ ip = <<>> \/ DigitsUS(ip)
    /\ fp = <<>> \/ DigitsUS(fp)
    /\ ~(ip = <<>> /\ fp = <<>>)

MantissaAt(m, i) == MantissaParts(SubSeq(m, 1, i - 1), SubSeq(m, i + 1, Len(m)))

MantissaOK(m) == IF Contains(m, ".") THEN MantissaAt(m, IndexOf(m, ".")) ELSE DigitsUS(m)

\* the mantissa before the letter e at position i of w and the exponent after it
ExponentAt(w, i) ==
    /\ MantissaOK(SubSeq(w, 1, i - 1))
    /\ DigitsUS(DropSign(SubSeq(w, i + 1, Len(w))))

\* the grammar of a decimal number in lower case
LowerDecimalOK(w) == IF Contains(w, "e") THEN ExponentAt(w, IndexOf(w, "e")) ELSE MantissaOK(w)

DecimalOK(v) == LowerDecimalOK(Lower(v))

\* the whitespace that float() skips at both ends of its argument: that of
\* str.isspace except U+001C to U+001F
IsFloatSpace(c) == IsSpace(c) /\ c \notin {"", "", "", ""}

\* the argument of float() without the whitespace at its ends
FloatStrip(s) ==
    IF \A i \in 1..Len(s) : IsFloatSpace(s[i]) THEN <<>>
    ELSE SubSeq(s, CHOOSE i \in 1..Len(s) : ~IsFloatSpace(s[i]) /\ \A j \in 1..(i - 1) : IsFloatSpace(s[j]),
                   CHOOSE i \in 1..Len(s) : ~IsFloatSpace(s[i]) /\ \A j \in (i + 1)..Len(s) : IsFloatSpace(s[j]))

\* float(s) returns a value (it raises ValueError otherwise)
UnsignedFloatOK(v) ==
    \/ Lower(v) \in {<<"i","n","f">>, <<"i","n","f","i","n","i","t","y">>, <<"n","a","n">>}
    \/ DecimalOK(v)

FloatAccepts(s) == UnsignedFloatOK(DropSign(FloatStrip(s)))

\* str(float(lexeme)), computed on decimal digits.  A natural number is the
\* tuple of its decimal digits, most significant first and without leading
\* zeros (0 is the empty tuple); a decimal is [d, f], the number d / 10^f; a
\* double is [m, e], the number m / 2^e with m < 2^53, or Infinity.

DigitValue(c) == (CHOOSE i \in 1..10 : DigitChars[i] = c) - 1
DigitsOf(s) == [i \in 1..Len(s) |-> DigitValue(s[i])]
TextOf(D) == [i \in 1..Len(D) |-> DigitChars[D[i] + 1]]
Zeros(n) == [i \in 1..n |-> 0]

\* D without its leading zeros
Trim(D) ==
    IF \A i \in 1..Len(D) : D[i] = 0 THEN <<>>
    ELSE SubSeq(D, CHOOSE i \in 1..Len(D) : D[i] # 0 /\ \A j \in 1..(i - 1) : D[j] = 0, Len(D))

\* D without its trailing zeros
TrimRight(D) ==
    IF \A i \in 1..Len(D) : D[i] = 0 THEN <<>>
    ELSE SubSeq(D, 1, CHOOSE i \in 1..Len(D) : D[i] # 0 /\ \A j \in (i + 1)..Len(D) : D[j] = 0)

\* A < B
Less(A, B) ==
    \/ Len(A) < Len(B)
    \/ /\ Len(A) = Len(B)
       /\ \E i \in 1..Len(A) : A[i] < B[i] /\ \A j \in 1..(i - 1) : A[j] = B[j]

\* the digit of 2 * D at the place of D[i], at the place before D for
\* i = 0: a digit doubles and takes the carry of the digit to its right
TwiceDigit(D, i) ==
    (IF i >= 1 THEN (2 * D[i]) % 10 ELSE 0) + (IF i < Len(D) /\ D[i + 1] >= 5 THEN 1 ELSE 0)

\* 2 * D
Twice(D) ==
    IF D = <<>> THEN <<>>
    ELSE IF D[1] >= 5 THEN SubSeq([i \in 1..(Len(D) + 1) |-> TwiceDigit(D, i - 1)], 1, Len(D) + 1)
    ELSE SubSeq([i \in 1..Len(D) |-> TwiceDigit(D, i)], 1, Len(D))

\* the digit of 5 * D at the place of D[i]: 5 * d = 10 * (d div 2) + 5 * (d mod 2)
FiveTimesDigit(D, i) ==
    (IF i >= 1 THEN 5 * (D[i] % 2) ELSE 0) + (IF i < Len(D) THEN D[i + 1] \div 2 ELSE 0)

\* 5 * D
FiveTimes(D) ==
    IF D = <<>> THEN <<>>
    ELSE IF D[1] >= 2 THEN SubSeq([i \in 1..(Len(D) + 1) |-> FiveTimesDigit(D, i - 1)], 1, Len(D) + 1)
    ELSE SubSeq([i \in 1..Len(D) |-> FiveTimesDigit(D, i)], 1, Len(D))

\* D * 2^j
RECURSIVE TimesTwoTo(_, _)
TimesTwoTo(D, j) ==
    IF D = <<>> \/ j = 0 THEN D
    ELSE IF j = 1 THEN Twice(D)
    ELSE TimesTwoTo(TimesTwoTo(D, j \div 2), j - (j \div 2))

\* D * 5^j
RECURSIVE TimesFiveTo(_, _)
TimesFiveTo(D, j) ==
    IF D = <<>> \/ j = 0 THEN D
    ELSE IF j = 1 THEN FiveTimes(D)
    ELSE TimesFiveTo(TimesFiveTo(D, j \div 2), j - (j \div 2))

\* D + 1
Increment(D) ==
    IF \A i \in 1..Len(D) : D[i] = 9 THEN <<1>> \o Zeros(Len(D))
    ELSE [i \in 1..Len(D) |->
            IF \E k \in (i + 1)..Len(D) : D[k] # 9 THEN D[i]
            ELSE IF D[i] = 9 THEN 0 ELSE D[i] + 1]

Decimal(d, f) == [d |-> d, f |-> f]

\* x * 2^j: for j < 0, x / 2^-j is x * 5^-j / 10^-j
Scaled(x, j) ==
    IF j >= 0 THEN Decimal(TimesTwoTo(x.d, j), x.f)
    ELSE Decimal(TimesFiveTo(x.d, 0 - j), x.f - j)

\* the integer part of x
IntPart(x) == IF Len(x.d) <= x.f THEN <<>> ELSE SubSeq(x.d, 1, Len(x.d) - x.f)

\* the i-th digit of x after the decimal point
FracDigit(x, i) == IF Len(x.d) - x.f + i >= 1 THEN x.d[Len(x.d) - x.f + i] ELSE 0

\* x rounded to the nearest integer, a tie to the even one
\* x is nearer to the integer above it than to its integer part, or as near
\* and its integer part is odd
RoundsUp(x) ==
    /\ x.f > 0
    /\ \/ FracDigit(x, 1) > 5
       \/ /\ FracDigit(x, 1) = 5
          /\ \/ \E i \in 2..x.f : FracDigit(x, i) # 0
             \/ (Len(x.d) > x.f /\ x.d[Len(x.d) - x.f] % 2 = 1)

RoundHalfEven(x) == IF RoundsUp(x) THEN Increment(IntPart(x)) ELSE IntPart(x)

\* the value of a decimal too large for a double
Infinity == [m |-> <<>>, e |-> 0]
Double(m, e) == [m |-> m, e |-> e]

\* binary64: 53 bits of mantissa, exponents -1022 to 1023, subnormal numbers
\* are multiples of 2^-1074
MantissaBits == 53
MaxExponent == 1023
MinScale == 1074

TwoTo(n) == TimesTwoTo(<<1>>, n)
TwoTo52 == TwoTo(MantissaBits - 1)
TwoTo53 == TwoTo(MantissaBits)

\* an upper bound of floor(log2(x)) for 10^(n-1) <= x < 10^n: log2(10) is
\* 3.3219280..., and floor(log2(x)) is less than LogUpper(1) + 2 below the
\* bound
LogUpper(n) == ((n * 3321929) \div 1000000) + 1
LogSlack == LogUpper(1) + 2

\* the number of doublings that bring y, a number below 2^53, to 2^52 or
\* above, none once the scale s has reached that of the subnormal numbers
Doublings(y, s) ==
    Cardinality({t \in 0..(LogSlack - 1) :
                    s + t < MinScale /\ Less(TimesTwoTo(IntPart(y), t), TwoTo52)})

\* the mantissa rounded at the scale s: 2^53 is 2^52 at the scale below
Rounded(m, s) ==
    IF m = TwoTo53 THEN Double(TwoTo52, s - 1) ELSE Double(m, s)

\* v, or Infinity when its exponent is above that of the largest double
Finite(v) == IF v.m # <<>> /\ MantissaBits - 1 - v.e > MaxExponent THEN Infinity ELSE v

RoundedAt(y, s) == Finite(Rounded(RoundHalfEven(y), s))

ScaledFrom(y, s, t) == RoundedAt(Scaled(y, t), s + t)

ToDoubleFrom(y, s) == ScaledFrom(y, s, Doublings(y, s))

ToDoubleAt(x, s) == ToDoubleFrom(Scaled(x, s), s)

Min(a, b) == IF a < b THEN a ELSE b

\* the double nearest to the decimal x # 0 (strtod): x is scaled by a power
\* of two that brings it into [2^52, 2^53) and rounded to an integer
ToDouble(x) ==
    IF Len(x.d) - x.f > 310 THEN Infinity
    ELSE IF Len(x.d) - x.f < 0 - 330 THEN Double(<<>>, MinScale)
    ELSE ToDoubleAt(x, Min(MantissaBits - 1 - LogUpper(Len(x.d) - x.f), MinScale))

\* v as a decimal, exactly
Exact(v) == Scaled(Decimal(v.m, 0), 0 - v.e)

\* the first n digits of D, zeros added when D is shorter
Prefix(D, n) == [i \in 1..n |-> IF i <= Len(D) THEN D[i] ELSE 0]

\* the decimal of the digits C for a number whose n leading digits end
\* p places after the decimal point (before it for p < 0)
Placed(C, p) == IF p >= 0 THEN Decimal(C, p) ELSE Decimal(C \o Zeros(0 - p), 0)

\* D is nearer to its first n digits incremented than to its first n digits:
\* the digits after the n-th are more than half a unit of the n-th, or they
\* are half a unit and the n-th digit is odd
UpNearer(D, n) ==
    /\ Len(D) > n
    /\ \/ D[n + 1] > 5
       \/ /\ D[n + 1] = 5
          /\ (D[n] % 2 = 1 \/ \E i \in (n + 2)..Len(D) : D[i] # 0)

\* the shortest digits that convert back to v, the nearer to v of the two
\* candidates of that length; [digits, decpt] for the number
\* 0.digits * 10^decpt.  S are the digits of Exact(v), the decimal point
\* after the first pt of them.
\* the digits C, n of them or n + 1 after a carry, convert back to v
ConvertsBack(C, v, pt, n) == ToDouble(Placed(C, n - pt)) = v

Digits(C, pt, n) == [digits |-> TrimRight(C), decpt |-> pt + Len(C) - n]

\* the two candidates of n digits: the first n digits of S as they are, and
\* incremented; number 1 is the nearer to S
Candidate(S, n, up) == IF up THEN Increment(Prefix(S, n)) ELSE Prefix(S, n)
Tried(S, n, k) == Candidate(S, n, UpNearer(S, n) = (k = 1))

\* the numbers of the candidates of n digits that convert back to v
Good(v, S, pt, n) == {k \in 1..2 : ConvertsBack(Tried(S, n, k), v, pt, n)}

RECURSIVE Shortest(_, _, _, _)
RECURSIVE ShortestAmong(_, _, _, _, _)
Shortest(v, S, pt, n) ==
    IF n >= Len(S) THEN Digits(S, pt, Len(S)) ELSE ShortestAmong(v, S, pt, n, Good(v, S, pt, n))

\* the nearer of the candidates good, or more digits when there is none
ShortestAmong(v, S, pt, n, good) ==
    IF good = {} THEN Shortest(v, S, pt, n + 1)
    ELSE Digits(Tried(S, n, CHOOSE k \in good : \A j \in good : k <= j), pt, n)

ShortestFrom(v, X) == Shortest(v, X.d, Len(X.d) - X.f, 1)

\* the digits of repr(v) for a double v that is neither 0 nor Infinity
ShortestOf(v) == ShortestFrom(v, Exact(v))

\* a natural number below 1000 written with at least two digits
TwoDigits(n) ==
    (IF n >= 100 THEN <<DigitChars[(n \div 100) + 1]>> ELSE <<>>)
    \o <<DigitChars[((n \div 10) % 10) + 1], DigitChars[(n % 10) + 1]>>

\* the exponent of the scientific notation: a sign and at least two digits
ExponentText(n) == IF n < 0 THEN <<"-">> \o TwoDigits(0 - n) ELSE <<"+">> \o TwoDigits(n)

\* repr of the number 0.T * 10^pt (float_repr_style 'short'): scientific
\* notation for pt > 16 or pt < -3, else fixed notation with at least one
\* digit after the point
FloatText(T, pt) ==
    CASE pt > 16 \/ pt < 0 - 3 ->
            <<T[1]>> \o (IF Len(T) > 1 THEN <<".">> \o SubSeq(T, 2, Len(T)) ELSE <<>>)
            \o <<"e">> \o ExponentText(pt - 1)
      [] pt <= 0 -> <<"0", ".">> \o TextOf(Zeros(0 - pt)) \o T
      [] pt >= Len(T) -> T \o TextOf(Zeros(pt - Len(T))) \o <<".", "0">>
      [] OTHER -> SubSeq(T, 1, pt) \o <<".">> \o SubSeq(T, pt + 1, Len(T))

ReprOfShortest(r) == FloatText(TextOf(r.digits), r.decpt)

\* repr(v), which str(v) is
FloatRepr(v) ==
    CASE v = Infinity -> <<"i","n","f">>
      [] v.m = <<>> -> <<"0",".","0">>
      [] OTHER -> ReprOfShortest(ShortestOf(v))

\* the decimal that the digits ip before and fp after the point denote
DecimalOf(ip, fp) == Decimal(Trim(DigitsOf(ip \o fp)), Len(fp))

FloatOf(x) == IF x.d = <<>> THEN Double(<<>>, MinScale) ELSE ToDouble(x)

\* str(float(lexeme)) for the lexeme of a NUMBER token that float() accepts:
\* digits, one '.', digits
PyFloat(s) ==
    [kind |-> "float",
     text |-> FloatRepr(FloatOf(DecimalOf(SubSeq(s, 1, IndexOf(s, ".") - 1),
                                           SubSeq(s, IndexOf(s, ".") + 1, Len(s)))))]

-----------------------------------------------------------------------------
(* AST nodes (dataclasses of syntax_parser.py).  None is NoNode.           *)

NoNode == [node |-> "None"]

SelectNode(columns, table, where, order_by, group_by, distinct, aggregate) ==
    [node |-> "Select", columns |-> columns, table |-> table, where |-> where,
     order_by |-> order_by, group_by |-> group_by, distinct |-> distinct,
     aggregate |-> aggregate]
WhereNode(condition) == [node |-> "Where", condition |-> condition]
SimpleCondition(column, operator, value) ==
    [node |-> "Simple", column |-> column, operator |-> operator, value |-> value]
AndCondition(left, right) == [node |-> "And", left |-> left, right |-> right]
OrCondition(left, right) == [node |-> "Or", left |-> left, right |-> right]
BetweenCondition(column, low, high) ==
    [node |-> "Between", column |-> column, low |-> low, high |-> high]
InCondition(column, values) == [node |-> "In", column |-> column, values |-> values]
LikeCondition(column, pattern) ==
    [node |-> "Like", column |-> column, pattern |-> pattern]
OrderByNode(column, direction) ==
    [node |-> "OrderBy", column |-> column, direction |-> direction]
GroupByNode(column) == [node |-> "GroupBy", column |-> column]
AggregateNode(function, column) ==
    [node |-> "Aggregate", function |-> function, column |-> column]
InsertNode(table, values) == [node |-> "Insert", table |-> table, values |-> values]
UpdateNode(table, set_column, set_value, where) ==
    [node |-> "Update", table |-> table, set_column |-> set_column,
     set_value |-> set_value, where |-> where]
DeleteNode(table, where) == [node |-> "Delete", table |-> table, where |-> where]
AlterTableNode(table, action, columns) ==
    [node |-> "AlterTable", table |-> table, action |-> action, columns |-> columns]

-----------------------------------------------------------------------------
(* Parser.  A parsing method is an operator of the token list and the      *)
(* parser position; it gives [err, pos, val]: err is "" and val the value  *)
(* returned, or err names the exception raised.                            *)

Ok(p, v)   == [err |-> "", pos |-> p, val |-> v]
Fail(e, p) == [err |-> e, pos |-> p, val |-> NoNode]

\* Parser._current_token
CurrentToken(toks, p) ==
    IF p >= Len(toks) THEN toks[Len(toks)] ELSE toks[p + 1]

\* Parser._match
Match(toks, p, types) == CurrentToken(toks, p).type \in types

\* a _parse_expect that takes whatever token comes
ExpectAnything(toks, p, type) == Ok(p + 1, CurrentToken(toks, p))

\* Parser._expect: the position after the token, or ParseError
Expect(toks, p, type) ==
    IF Match(toks, p, {type})
    THEN Ok(p + 1, CurrentToken(toks, p))
    ELSE Fail("ParseError", p)

\* the dict op_map of _parse_operator
OpSymbol(type) ==
    CASE type = "EQUALS"     -> <<"=">>
      [] type = "NOT_EQUALS" -> <<"!","=">>
      [] type = "GREATER"    -> <<">">>
      [] type = "LESS"       -> <<"<">>
      [] type = "GREATER_EQ" -> <<">","=">>
      [] type = "LESS_EQ"    -> <<"<","=">>

OperatorTypes ==
    {"EQUALS", "NOT_EQUALS", "GREATER", "LESS", "GREATER_EQ", "LESS_EQ"}

\* Parser._parse_operator
ParseOperator(toks, p) ==
    IF Match(toks, p, OperatorTypes)
    THEN Ok(p + 1, OpSymbol(CurrentToken(toks, p).type))
    ELSE Fail("ParseError", p)

\* the conversion of a NUMBER lexeme in _parse_value: float() with a '.',
\* int() without; either raises ValueError on a lexeme it does not accept
NumberValue(p, lexeme) ==
    IF Contains(lexeme, ".")
    THEN IF FloatAccepts(lexeme) THEN Ok(p, PyFloat(lexeme)) ELSE Fail("ValueError", p)
    ELSE IF IntAccepts(lexeme) THEN Ok(p, PyInt(lexeme)) ELSE Fail("ValueError", p)

\* Parser._parse_value
ParseValue(toks, p) ==
    LET token == CurrentToken(toks, p)
    IN  IF token.type = "NUMBER" THEN NumberValue(p + 1, token.value)
        ELSE IF token.type \in {"STRING", "IDENTIFIER"} THEN Ok(p + 1, PyStr(token.value))
        ELSE Fail("ParseError", p)

\* sequencing of two parsing steps: an exception raised by the first step r
\* propagates, otherwise the rest F goes on from its result
Then(r, F(_)) == IF r.err # "" THEN r ELSE F(r)

\* "if not self._match(IDENTIFIER): raise ParseError(...)", then
\* "self._advance().value"
ExpectIdentifier(toks, p) ==
    IF Match(toks, p, {"IDENTIFIER"})
    THEN Ok(p + 1, CurrentToken(toks, p).value)
    ELSE Fail("ParseError", p)

\* "if self._match(IDENTIFIER): x = self._advance().value", x None before
OptionalIdentifier(toks, p) ==
    IF Match(toks, p, {"IDENTIFIER"})
    THEN Ok(p + 1, PyStr(CurrentToken(toks, p).value))
    ELSE Ok(p, PyNone)

\* the loop "while self._match(COMMA)" of _parse_value_list
RECURSIVE ValueListLoop(_, _, _)
ValueListLoop(toks, p, values) ==
    IF Match(toks, p, {"COMMA"})
    THEN Then(ParseValue(toks, p + 1),
              LAMBDA v : ValueListLoop(toks, v.pos, Append(values, v.val)))
    ELSE Ok(p, values)

\* "if has_paren: self._consume_if(RPAREN)"
CloseParen(toks, has_paren, r) ==
    IF has_paren /\ Match(toks, r.pos, {"RPAREN"}) THEN Ok(r.pos + 1, r.val) ELSE r

\* Parser._parse_value_list
ParseValueList(toks, p) ==
    Then(ParseValue(toks, IF Match(toks, p, {"LPAREN"}) THEN p + 1 ELSE p),
         LAMBDA first :
    Then(ValueListLoop(toks, first.pos, <<first.val>>),
         LAMBDA rest : CloseParen(toks, Match(toks, p, {"LPAREN"}), rest)))

\* the BETWEEN branch of _parse_simple_condition, after BETWEEN was consumed
ParseBetween(toks, p, column) ==
    Then(ParseValue(toks, p), LAMBDA low :
    Then(Expect(toks, low.pos, "AND"), LAMBDA a :
    Then(ParseValue(toks, a.pos), LAMBDA high :
        Ok(high.pos, BetweenCondition(column, low.val, high.val)))))

\* the comparison branch of _parse_simple_condition
ParseComparison(toks, p, column) ==
    Then(ParseOperator(toks, p), LAMBDA op :
    Then(ParseValue(toks, op.pos), LAMBDA value :
        Ok(value.pos, SimpleCondition(column, op.val, value.val))))

\* Parser._parse_simple_condition
ParseSimpleCondition(toks, p) ==
    Then(ExpectIdentifier(toks, p), LAMBDA column :
        IF Match(toks, column.pos, {"BETWEEN"})
        THEN ParseBetween(toks, column.pos + 1, column.val)
        ELSE IF Match(toks, column.pos, {"IN"})
        THEN Then(ParseValueList(toks, column.pos + 1), LAMBDA values :
                 Ok(values.pos, InCondition(column.val, values.val)))
        ELSE IF Match(toks, column.pos, {"LIKE", "CONTAINS"})
        THEN Then(ParseValue(toks, column.pos + 1), LAMBDA pattern :
                 Ok(pattern.pos, LikeCondition(column.val, pattern.val.text)))
        ELSE ParseComparison(toks, column.pos, column.val))

\* a fold that gives AND / OR chains to the right operand: the new condition
\* joins the last condition of the chain instead of the whole chain
CombineRightNested(opType, left, right) ==
    IF left.node \in {"And", "Or"}
    THEN [left EXCEPT !.right =
            IF opType = "AND" THEN AndCondition(left.right, right)
            ELSE OrCondition(left.right, right)]
    ELSE IF opType = "AND" THEN AndCondition(left, right) ELSE OrCondition(left, right)

\* the node built for a connective: "left = AndCondition(left, right)" or
\* "left = OrCondition(left, right)"
Combine(opType, left, right) ==
    IF opType = "AND" THEN AndCondition(left, right) ELSE OrCondition(left, right)

\* the loop "while self._match(AND, OR)" of _parse_condition
RECURSIVE ConditionLoop(_, _, _)
ConditionLoop(toks, p, left) ==
    IF Match(toks, p, {"AND", "OR"})
    THEN Then(ParseSimpleCondition(toks, p + 1), LAMBDA right :
             ConditionLoop(toks, right.pos,
                           Combine(CurrentToken(toks, p).type, left, right.val)))
    ELSE Ok(p, left)

\* Parser._parse_condition
ParseCondition(toks, p) ==
    Then(ParseSimpleCondition(toks, p),
         LAMBDA left : ConditionLoop(toks, left.pos, left.val))

\* Parser._parse_where
ParseWhere(toks, p) ==
    Then(ParseCondition(toks, p + 1),
         LAMBDA condition : Ok(condition.pos, WhereNode(condition.val)))

\* "where = None; if self._match(WHERE): where = self._parse_where()"
OptionalWhere(toks, p) ==
    IF Match(toks, p, {"WHERE"}) THEN ParseWhere(toks, p) ELSE Ok(p, NoNode)

\* the direction part of _parse_order_by
OrderDirection(toks, p, column) ==
    IF Match(toks, p, {"ASC"}) THEN Ok(p + 1, OrderByNode(column, <<"A","S","C">>))
    ELSE IF Match(toks, p, {"DESC"}) THEN Ok(p + 1, OrderByNode(column, <<"D","E","S","C">>))
    ELSE Ok(p, OrderByNode(column, <<"A","S","C">>))

\* Parser._parse_order_by
ParseOrderBy(toks, p) ==
    Then(Expect(toks, p + 1, "BY"), LAMBDA by :
        IF Match(toks, by.pos, {"IDENTIFIER"})
        THEN OrderDirection(toks, by.pos + 1, CurrentToken(toks, by.pos).value)
        ELSE OrderDirection(toks, by.pos, <<"i","d">>))

\* Parser._parse_group_by
ParseGroupBy(toks, p) ==
    Then(Expect(toks, p + 1, "BY"), LAMBDA by :
    Then(ExpectIdentifier(toks, by.pos), LAMBDA column :
        Ok(column.pos, GroupByNode(column.val))))

\* "if self._match(ORDER): order_by = self._parse_order_by()"
OptionalOrderBy(toks, p) ==
    IF Match(toks, p, {"ORDER"}) THEN ParseOrderBy(toks, p) ELSE Ok(p, NoNode)

\* "if self._match(GROUP): group_by = self._parse_group_by()"
OptionalGroupBy(toks, p) ==
    IF Match(toks, p, {"GROUP"}) THEN ParseGroupBy(toks, p) ELSE Ok(p, NoNode)

\* a _parse_from that never requires a table
ParseFromLenient(toks, p, allow_missing) ==
    LET q == IF Match(toks, p, {"FROM"}) THEN p + 1 ELSE p
    IN  IF Match(toks, q, {"IDENTIFIER"}) THEN Ok(q + 1, PyStr(CurrentToken(toks, q).value))
        ELSE Ok(q, PyNone)

\* a _parse_from that requires the FROM keyword unless allow_missing
ParseFromStrict(toks, p, allow_missing) ==
    IF ~Match(toks, p, {"FROM"}) /\ ~allow_missing
    THEN Fail("ParseError", p)
    ELSE
    LET q == IF Match(toks, p, {"FROM"}) THEN p + 1 ELSE p
    IN  IF Match(toks, q, {"IDENTIFIER"}) THEN Ok(q + 1, PyStr(CurrentToken(toks, q).value))
        ELSE IF ~allow_missing THEN Fail("ParseError", q)
        ELSE Ok(q, PyNone)

\* Parser._parse_from; the table returned is a string or None
ParseFrom(toks, p, allow_missing) ==
    IF ~Match(toks, p, {"FROM"}) /\ ~allow_missing /\ ~Match(toks, p, {"IDENTIFIER"})
    THEN Fail("ParseError", p)
    ELSE
    LET q == IF Match(toks, p, {"FROM"}) THEN p + 1 ELSE p
    IN  IF Match(toks, q, {"IDENTIFIER"}) THEN Ok(q + 1, PyStr(CurrentToken(toks, q).value))
        ELSE IF ~allow_missing THEN Fail("ParseError", q)
        ELSE Ok(q, PyNone)

\* the loop "while self._match(COMMA)" of a column list: a comma that no
\* identifier follows adds nothing
RECURSIVE ColumnListLoop(_, _, _)
ColumnListLoop(toks, p, columns) ==
    IF Match(toks, p, {"COMMA"})
    THEN IF Match(toks, p + 1, {"IDENTIFIER"})
         THEN ColumnListLoop(toks, p + 2,
                             Append(columns, PyStr(CurrentToken(toks, p + 1).value)))
         ELSE ColumnListLoop(toks, p + 1, columns)
    ELSE Ok(p, columns)

Star == PyStr(<<"*">>)

\* the result of the part of _parse_select that settles columns and table
Target(p, columns, table) == Ok(p, [columns |-> columns, table |-> table])

\* the default branch of _parse_select (source lines 299-305), first being
\* first_identifier
SelectDefault(toks, first) ==
    Then(ParseFrom(toks, first.pos, TRUE), LAMBDA table :
        IF table.val = PyNone
        THEN Target(table.pos, <<Star>>, first.val)
        ELSE Target(table.pos, IF first.val # PyNone THEN <<first.val>> ELSE <<Star>>,
                    table.val))

\* a _parse_select that takes the identifier before WHERE / ORDER / GROUP /
\* end of input as a column and leaves the table unset
SelectTargetColumnFirst(toks, p) ==
    IF Match(toks, p, {"ALL", "STAR"})
    THEN Then(ParseFrom(toks, p + 1, FALSE),
              LAMBDA table : Target(table.pos, <<Star>>, table.val))
    ELSE
    Then(OptionalIdentifier(toks, p), LAMBDA first :
        IF Match(toks, first.pos, {"COMMA"})
        THEN Then(ColumnListLoop(toks, first.pos, <<first.val>>), LAMBDA columns :
             Then(ParseFrom(toks, columns.pos, FALSE), LAMBDA table :
                 Target(table.pos, columns.val, table.val)))
        ELSE IF Match(toks, first.pos, {"FROM"})
        THEN Then(ParseFrom(toks, first.pos, FALSE), LAMBDA table :
                 Target(table.pos, <<first.val>>, table.val))
        ELSE IF Match(toks, first.pos, {"WHERE", "ORDER", "GROUP", "EOF"})
        THEN Target(first.pos, <<first.val>>, PyNone)
        ELSE SelectDefault(toks, first))

\* the part of _parse_select that settles columns and table (source lines
\* 261-305), from the position after SELECT and DISTINCT
SelectTarget(toks, p) ==
    IF Match(toks, p, {"ALL", "STAR"})
    THEN Then(ParseFrom(toks, p + 1, FALSE),
              LAMBDA table : Target(table.pos, <<Star>>, table.val))
    ELSE
    Then(OptionalIdentifier(toks, p), LAMBDA first :
        IF Match(toks, first.pos, {"COMMA"})
        THEN Then(ColumnListLoop(toks, first.pos, <<first.val>>), LAMBDA columns :
             Then(ParseFrom(toks, columns.pos, FALSE), LAMBDA table :
                 Target(table.pos, columns.val, table.val)))
        ELSE IF Match(toks, first.pos, {"FROM"})
        THEN Then(ParseFrom(toks, first.pos, FALSE), LAMBDA table :
                 Target(table.pos, <<first.val>>, table.val))
        ELSE IF Match(toks, first.pos, {"WHERE", "ORDER", "GROUP", "EOF"})
        THEN Target(first.pos, <<Star>>, first.val)
        ELSE SelectDefault(toks, first))

\* Parser._parse_select
ParseSelect(toks, p) ==
    Then(SelectTarget(toks, IF Match(toks, p + 1, {"DISTINCT"}) THEN p + 2 ELSE p + 1),
         LAMBDA target :
    Then(OptionalWhere(toks, target.pos), LAMBDA where :
    Then(OptionalOrderBy(toks, where.pos), LAMBDA order_by :
    Then(OptionalGroupBy(toks, order_by.pos), LAMBDA group_by :
        Ok(group_by.pos,
           SelectNode(target.val.columns, target.val.table, where.val, order_by.val,
                      group_by.val, Match(toks, p + 1, {"DISTINCT"}), NoNode))))))

\* the part shared by _parse_count and _parse_sum: an optional identifier,
\* then an optional FROM with an optional table identifier
AggregateTarget(toks, p) ==
    Then(OptionalIdentifier(toks, p), LAMBDA target :
        IF Match(toks, target.pos, {"FROM"})
        THEN IF Match(toks, target.pos + 1, {"IDENTIFIER"})
             THEN Ok(target.pos + 2,
                     [target |-> target.val,
                      table |-> PyStr(CurrentToken(toks, target.pos + 1).value)])
             ELSE Ok(target.pos + 1, [target |-> target.val, table |-> target.val])
        ELSE Ok(target.pos, [target |-> target.val, table |-> target.val]))

\* Parser._parse_count
ParseCount(toks, p) ==
    Then(AggregateTarget(toks, IF Match(toks, p + 1, {"MANY"}) THEN p + 2 ELSE p + 1),
         LAMBDA t :
    Then(OptionalWhere(toks, t.pos), LAMBDA where :
        Ok(where.pos,
           SelectNode(<<PyStr(<<"C","O","U","N","T","(","*",")">>)>>, t.val.table, where.val, NoNode, NoNode,
                      FALSE, AggregateNode(<<"C","O","U","N","T">>, PyNone)))))

\* the column "f'SUM({column})' if column else 'SUM(*)'"
SumColumn(column) ==
    IF column # PyNone THEN PyStr(<<"S","U","M","(">> \o column.text \o <<")">>) ELSE PyStr(<<"S","U","M","(","*",")">>)

\* Parser._parse_sum
ParseSum(toks, p) ==
    Then(AggregateTarget(toks, p + 1), LAMBDA t :
    Then(OptionalWhere(toks, t.pos), LAMBDA where :
        Ok(where.pos,
           SelectNode(<<SumColumn(t.val.target)>>, t.val.table, where.val, NoNode,
                      NoNode, FALSE, AggregateNode(<<"S","U","M">>, t.val.target)))))

\* Parser._parse_find
ParseFind(toks, p) ==
    Then(OptionalIdentifier(toks, p + 1), LAMBDA table :
    Then(OptionalWhere(toks, table.pos), LAMBDA where :
        Ok(where.pos,
           SelectNode(<<Star>>, table.val, where.val, NoNode, NoNode, FALSE, NoNode))))

\* Parser._parse_insert
ParseInsert(toks, p) ==
    Then(Expect(toks, p + 1, "INTO"), LAMBDA into :
    Then(ExpectIdentifier(toks, into.pos), LAMBDA table :
    Then(Expect(toks, table.pos, "VALUES"), LAMBDA vals :
    Then(ParseValueList(toks, vals.pos), LAMBDA values :
        Ok(values.pos, InsertNode(PyStr(table.val), values.val))))))

\* Parser._parse_update
ParseUpdate(toks, p) ==
    Then(ExpectIdentifier(toks, p + 1), LAMBDA table :
    Then(Expect(toks, table.pos, "SET"), LAMBDA set :
    Then(ExpectIdentifier(toks, set.pos), LAMBDA set_column :
    Then(Expect(toks, set_column.pos, "EQUALS"), LAMBDA eq :
    Then(ParseValue(toks, eq.pos), LAMBDA set_value :
    Then(OptionalWhere(toks, set_value.pos), LAMBDA where :
        Ok(where.pos,
           UpdateNode(PyStr(table.val), set_column.val, set_value.val, where.val))))))))

\* the column list of _parse_drop_column (source lines 653-660)
DropColumnList(toks, p) ==
    IF Match(toks, p, {"IDENTIFIER"})
    THEN ColumnListLoop(toks, p + 1, <<PyStr(CurrentToken(toks, p).value)>>)
    ELSE Ok(p, <<>>)

\* Parser._parse_drop_column
ParseDropColumn(toks, p) ==
    Then(DropColumnList(toks, p + 1), LAMBDA columns :
    Then(Expect(toks, columns.pos, "FROM"), LAMBDA from :
    Then(ExpectIdentifier(toks, from.pos), LAMBDA table :
        Ok(table.pos, AlterTableNode(PyStr(table.val), <<"D","R","O","P"," ","C","O","L","U","M","N">>, columns.val)))))

\* Parser._parse_delete
ParseDelete(toks, p) ==
    IF Match(toks, p + 1, {"COLUMN"}) THEN ParseDropColumn(toks, p + 1)
    ELSE
    Then(ExpectIdentifier(toks, IF Match(toks, p + 1, {"FROM"}) THEN p + 2 ELSE p + 1),
         LAMBDA table :
    Then(OptionalWhere(toks, table.pos), LAMBDA where :
        Ok(where.pos, DeleteNode(PyStr(table.val), where.val))))

\* the column list of _parse_alter (source lines 683-685): at most one column
AlterColumnList(toks, p) ==
    IF Match(toks, p, {"IDENTIFIER"})
    THEN Ok(p + 1, <<PyStr(CurrentToken(toks, p).value)>>)
    ELSE Ok(p, <<>>)

\* Parser._parse_alter
ParseAlter(toks, p) ==
    Then(Expect(toks, p + 1, "TABLE"), LAMBDA tbl :
    Then(ExpectIdentifier(toks, tbl.pos), LAMBDA table :
    Then(Expect(toks, table.pos, "DROP"), LAMBDA drop :
    Then(Expect(toks, drop.pos, "COLUMN"), LAMBDA col :
    Then(AlterColumnList(toks, col.pos), LAMBDA columns :
        Ok(columns.pos,
           AlterTableNode(PyStr(table.val), <<"D","R","O","P"," ","C","O","L","U","M","N">>, columns.val)))))))

\* Parser.parse on a fresh Parser(toks)
Parse(toks) ==
    IF Match(toks, 0, {"SELECT"}) THEN ParseSelect(toks, 0)
    ELSE IF Match(toks, 0, {"COUNT", "HOW"}) THEN ParseCount(toks, 0)
    ELSE IF Match(toks, 0, {"SUM", "TOTAL"}) THEN ParseSum(toks, 0)
    ELSE IF Match(toks, 0, {"FIND"}) THEN ParseFind(toks, 0)
    ELSE IF Match(toks, 0, {"INSERT"}) THEN ParseInsert(toks, 0)
    ELSE IF Match(toks, 0, {"UPDATE"}) THEN ParseUpdate(toks, 0)
    ELSE IF Match(toks, 0, {"DELETE"}) THEN ParseDelete(toks, 0)
    ELSE IF Match(toks, 0, {"ALTER"}) THEN ParseAlter(toks, 0)
    ELSE Fail("ParseError", 0)

-----------------------------------------------------------------------------
(* SQL generator (pipeline.py)                                             *)

\* the concatenation of the sequences ss[a], ..., ss[b]
RECURSIVE FlatRange(_, _, _)
FlatRange(ss, a, b) ==
    CASE a > b -> <<>>
      [] a = b -> ss[a]
      [] a < b -> FlatRange(ss, a, (a + b) \div 2) \o FlatRange(ss, (a + b) \div 2 + 1, b)

Flatten(ss) == FlatRange(ss, 1, Len(ss))

\* sep.join(parts) for a sequence of strings
Join(parts, sep) ==
    Flatten([i \in 1..(2 * Len(parts) - 1) |->
                IF i % 2 = 1 THEN parts[(i + 1) \div 2] ELSE sep])

Quoted(s) == <<"'">> \o s \o <<"'">>

\* a format_value that quotes every string
FormatValueQuoteStrings(value) ==
    IF value.kind \in {"int", "float"} THEN value.text ELSE Quoted(value.text)

\* format_value
format_value(value) ==
    IF value.kind = "str"
    THEN IF \/ StrIsDigit(value.text)
            \/ (value.text # <<>> /\ Head(value.text) = "-" /\ StrIsDigit(Tail(value.text)))
         THEN value.text
         ELSE IF FloatAccepts(value.text) THEN value.text
         ELSE Quoted(value.text)
    ELSE IF value.kind \in {"int", "float"} THEN value.text
    ELSE Quoted(value.text)

\* a LikeCondition rendered with the wildcards always added
LikeSqlAlwaysWrapped(c) ==
    c.column \o <<" ","L","I","K","E"," ","'">> \o <<"%">> \o c.pattern \o <<"%">> \o <<"'">>

\* the LikeCondition branch of condition_to_sql
LikeSql(c) ==
    c.column \o <<" ","L","I","K","E"," ","'">>
    \o (IF ~Contains(c.pattern, "%") THEN <<"%">> \o c.pattern \o <<"%">>
        ELSE c.pattern)
    \o <<"'">>

\* a rendering that writes Or without parentheses, as it writes And
RECURSIVE condition_to_sql_bareOr(_)
condition_to_sql_bareOr(c) ==
    CASE c.node = "None" -> <<>>
      [] c.node = "Simple" ->
            c.column \o <<" ">> \o c.operator \o <<" ">> \o format_value(c.value)
      [] c.node = "And" ->
            condition_to_sql_bareOr(c.left) \o <<" ","A","N","D"," ">> \o condition_to_sql_bareOr(c.right)
      [] c.node = "Or" ->
            condition_to_sql_bareOr(c.left) \o <<" ","O","R"," ">> \o condition_to_sql_bareOr(c.right)
      [] c.node = "Between" ->
            c.column \o <<" ","B","E","T","W","E","E","N"," ">> \o c.low.text \o <<" ","A","N","D"," ">> \o c.high.text
      [] c.node = "In" ->
            c.column \o <<" ","I","N"," ","(">>
            \o Join([i \in 1..Len(c.values) |-> format_value(c.values[i])], <<","," ">>)
            \o <<")">>
      [] c.node = "Like" -> LikeSql(c)

\* condition_to_sql
RECURSIVE condition_to_sql(_)
condition_to_sql(c) ==
    CASE c.node = "None" -> <<>>
      [] c.node = "Simple" ->
            c.column \o <<" ">> \o c.operator \o <<" ">> \o format_value(c.value)
      [] c.node = "And" ->
            condition_to_sql(c.left) \o <<" ","A","N","D"," ">> \o condition_to_sql(c.right)
      [] c.node = "Or" ->
            <<"(">> \o condition_to_sql(c.left) \o <<" ","O","R"," ">> \o condition_to_sql(c.right)
            \o <<")">>
      [] c.node = "Between" ->
            c.column \o <<" ","B","E","T","W","E","E","N"," ">> \o c.low.text \o <<" ","A","N","D"," ">> \o c.high.text
      [] c.node = "In" ->
            c.column \o <<" ","I","N"," ","(">>
            \o Join([i \in 1..Len(c.values) |-> format_value(c.values[i])], <<","," ">>)
            \o <<")">>
      [] c.node = "Like" -> LikeSql(c)

\* ', '.join(items) of a list of Python values: TypeError unless every item
\* is a string
JoinValues(items) ==
    IF \A i \in 1..Len(items) : items[i].kind = "str"
    THEN [err |-> "", val |-> Join([i \in 1..Len(items) |-> items[i].text], <<","," ">>)]
    ELSE [err |-> "TypeError", val |-> <<>>]

\* the " WHERE ..." suffix added when ast.where is set
WhereSql(where) ==
    IF where = NoNode THEN <<>> ELSE <<" ","W","H","E","R","E"," ">> \o condition_to_sql(where.condition)

\* ast_to_sql: [err, val], val the SQL text
ast_to_sql(a) ==
    CASE a.node = "Select" ->
            LET columns == JoinValues(a.columns)
            IN  IF columns.err # "" THEN columns
                ELSE [err |-> "",
                      val |-> <<"S","E","L","E","C","T"," ">>
                              \o (IF a.distinct THEN <<"D","I","S","T","I","N","C","T"," ">> ELSE <<>>)
                              \o columns.val \o <<" ","F","R","O","M"," ">> \o a.table.text
                              \o WhereSql(a.where)
                              \o (IF a.order_by # NoNode
                                  THEN <<" ","O","R","D","E","R"," ","B","Y"," ">> \o a.order_by.column \o <<" ">>
                                       \o a.order_by.direction
                                  ELSE <<>>)
                              \o (IF a.group_by # NoNode
                                  THEN <<" ","G","R","O","U","P"," ","B","Y"," ">> \o a.group_by.column
                                  ELSE <<>>)
                              \o <<";">>]
      [] a.node = "Insert" ->
            [err |-> "",
             val |-> <<"I","N","S","E","R","T"," ","I","N","T","O"," ">> \o a.table.text \o <<" ","V","A","L","U","E","S"," ","(">>
                     \o Join([i \in 1..Len(a.values) |-> format_value(a.values[i])], <<","," ">>)
                     \o <<")",";">>]
      [] a.node = "Update" ->
            [err |-> "",
             val |-> <<"U","P","D","A","T","E"," ">> \o a.table.text \o <<" ","S","E","T"," ">> \o a.set_column \o <<" ","="," ">>
                     \o format_value(a.set_value) \o WhereSql(a.where) \o <<";">>]
      [] a.node = "Delete" ->
            [err |-> "",
             val |-> <<"D","E","L","E","T","E"," ","F","R","O","M"," ">> \o a.table.text \o WhereSql(a.where) \o <<";">>]
      [] a.node = "AlterTable" ->
            IF a.action = <<"D","R","O","P"," ","C","O","L","U","M","N">>
            THEN LET columns == JoinValues(a.columns)
                 IN  IF columns.err # "" THEN columns
                     ELSE [err |-> "",
                           val |-> <<"A","L","T","E","R"," ","T","A","B","L","E"," ">> \o a.table.text
                                   \o <<" ","D","R","O","P"," ","C","O","L","U","M","N"," ">>
                                   \o columns.val \o <<";">>]
            ELSE [err |-> "",
                  val |-> <<"A","L","T","E","R"," ","T","A","B","L","E"," ">> \o a.table.text \o <<" ">>
                          \o a.action \o <<";">>]
      [] OTHER -> [err |-> "ValueError", val |-> <<>>]

-----------------------------------------------------------------------------
(* NLToSQLPipeline (pipeline.py).  An instance is the record of its three   *)
(* last_* fields; None is <<>> for last_tokens and last_sql (tokenize and   *)
(* ast_to_sql never return an empty value) and NoNode for last_ast.  A      *)
(* method is an operator of the instance and the arguments; it gives        *)
(* [self, err, val]: the instance after the call, and the value returned    *)
(* or the name of the exception raised.                                     *)

\* NLToSQLPipeline.__init__
NewPipeline == [last_tokens |-> <<>>, last_ast |-> NoNode, last_sql |-> <<>>]

Returns(self, v)  == [self |-> self, err |-> "", val |-> v]
Raises(self, e)   == [self |-> self, err |-> e, val |-> <<>>]

\* an optional argument: left out (None) or given
NoArg    == [none |-> TRUE, val |-> <<>>]
Arg(v)   == [none |-> FALSE, val |-> v]

\* a tokenize that trusts the cache: it scans only when nothing is stored yet
Pipeline_tokenize_cached(self, t) ==
    IF self.last_tokens = <<>>
    THEN Returns([self EXCEPT !.last_tokens = Tokenize(t)], Tokenize(t))
    ELSE Returns(self, self.last_tokens)

\* NLToSQLPipeline.tokenize: the result is stored, then read back
Pipeline_tokenize(self, t) ==
    Then(Returns([self EXCEPT !.last_tokens = Tokenize(t)], <<>>),
         LAMBDA stored : Returns(stored.self, stored.self.last_tokens))

\* Parser(tokens).parse() for the tokens that NLToSQLPipeline.parse settled
\* on: len(None) raises TypeError, [][-1] raises IndexError
RunParser(toks) ==
    IF toks.none THEN Fail("TypeError", 0)
    ELSE IF toks.val = <<>> THEN Fail("IndexError", 0)
    ELSE Parse(toks.val)

\* the tokens NLToSQLPipeline.parse hands to the parser (source lines 175-178)
ParseOperand(self, toks, txt) ==
    IF (~txt.none /\ txt.val # <<>>) /\ (toks.none \/ toks.val = <<>>)
    THEN Then(Pipeline_tokenize(self, txt.val), LAMBDA t : Returns(t.self, Arg(t.val)))
    ELSE IF toks.none
    THEN Returns(self, IF self.last_tokens = <<>> THEN NoArg ELSE Arg(self.last_tokens))
    ELSE Returns(self, toks)

\* NLToSQLPipeline.parse
Pipeline_parse(self, toks, txt) ==
    Then(ParseOperand(self, toks, txt), LAMBDA operand :
    Then([self |-> operand.self] @@ RunParser(operand.val), LAMBDA parsed :
    Then(Returns([parsed.self EXCEPT !.last_ast = parsed.val], <<>>), LAMBDA stored :
        Returns(stored.self, stored.self.last_ast))))

\* NLToSQLPipeline.generate_sql; None is NoNode
Pipeline_generate_sql(self, ast_arg) ==
    Then([self |-> self] @@ ast_to_sql(IF ast_arg = NoNode THEN self.last_ast ELSE ast_arg),
         LAMBDA generated :
    Then(Returns([generated.self EXCEPT !.last_sql = generated.val], <<>>), LAMBDA stored :
        Returns(stored.self, stored.self.last_sql)))

\* ast_to_dict of syntax_parser.py
RECURSIVE ast_to_dict(_)
ast_to_dict(n) ==
    CASE n.node = "None" -> NoNode
      [] n.node = "Select" ->
            [type |-> "SELECT", columns |-> n.columns, table |-> n.table,
             distinct |-> n.distinct, where |-> ast_to_dict(n.where),
             order_by |-> ast_to_dict(n.order_by), group_by |-> ast_to_dict(n.group_by),
             aggregate |-> ast_to_dict(n.aggregate)]
      [] n.node = "Where" -> [type |-> "WHERE", condition |-> ast_to_dict(n.condition)]
      [] n.node = "Simple" ->
            [type |-> "CONDITION", column |-> n.column, operator |-> n.operator,
             value |-> n.value]
      [] n.node = "And" ->
            [type |-> "AND", left |-> ast_to_dict(n.left), right |-> ast_to_dict(n.right)]
      [] n.node = "Or" ->
            [type |-> "OR", left |-> ast_to_dict(n.left), right |-> ast_to_dict(n.right)]
      [] n.node = "Between" ->
            [type |-> "BETWEEN", column |-> n.column, low |-> n.low, high |-> n.high]
      [] n.node = "In" -> [type |-> "IN", column |-> n.column, values |-> n.values]
      [] n.node = "Like" -> [type |-> "LIKE", column |-> n.column, pattern |-> n.pattern]
      [] n.node = "OrderBy" ->
            [type |-> "ORDER_BY", column |-> n.column, direction |-> n.direction]
      [] n.node = "GroupBy" -> [type |-> "GROUP_BY", column |-> n.column]
      [] n.node = "Aggregate" ->
            [type |-> "AGGREGATE", function |-> n.function, column |-> n.column]
      [] n.node = "Insert" ->
            [type |-> "INSERT", table |-> n.table, values |-> n.values, columns |-> PyNone]
      [] n.node = "Update" ->
            [type |-> "UPDATE", table |-> n.table, set_column |-> n.set_column,
             set_value |-> n.set_value, where |-> ast_to_dict(n.where)]
      [] n.node = "Delete" ->
            [type |-> "DELETE", table |-> n.table, where |-> ast_to_dict(n.where)]
      [] n.node = "AlterTable" ->
            [type |-> "ALTER_TABLE", table |-> n.table, action |-> n.action,
             columns |-> n.columns]

\* "[{'type': t.type.name, 'value': t.value} for t in tokens if t.type != EOF]"
RECURSIVE TokenDicts(_)
TokenDicts(toks) ==
    IF toks = <<>> THEN <<>>
    ELSE IF Head(toks).type = "EOF" THEN TokenDicts(Tail(toks))
    ELSE <<[type |-> Head(toks).type, value |-> Head(toks).value]>> \o TokenDicts(Tail(toks))

\* the dict that process returns
ProcessResult(t, toks, a, s) ==
    [input |-> t, tokens |-> TokenDicts(toks), ast |-> ast_to_dict(a), sql |-> s]

\* NLToSQLPipeline.process
Pipeline_process(self, t) ==
    Then(Pipeline_tokenize(self, t), LAMBDA toks :
    Then(Pipeline_parse(toks.self, Arg(toks.val), NoArg), LAMBDA a :
    Then(Pipeline_generate_sql(a.self, a.val), LAMBDA s :
        Returns(s.self, ProcessResult(t, toks.val, a.val, s.val)))))

\* NLToSQLPipeline.quick_parse: process, of whose dict the SQL is returned
Pipeline_quick_parse(self, t) ==
    Then(Pipeline_process(self, t), LAMBDA result : Returns(result.self, result.val.sql))

\* nl_to_sql and process_text of pipeline.py: each on a pipeline of its own
nl_to_sql(t) == Pipeline_quick_parse(NewPipeline, t)

process_text(t) == Pipeline_process(NewPipeline, t)

-----------------------------------------------------------------------------

\* the orchestrator instances and the callers of the concurrent runs
Instances == {1, 2}
Callers   == {1, 2}

\* a caller that is not inside a call, and the record of "no call returned yet"
NotCalling == [pc |-> "idle", input |-> <<>>, tokens |-> <<>>, ast |-> NoNode,
               sql |-> <<>>, err |-> "", val |-> <<>>]
NoCall     == [call |-> "", args |-> <<>>, before |-> NewPipeline, err |-> "", val |-> <<>>]

\* the record of a call that returned or raised: r is what the method operator gave
Outcome(name, args, before, r) ==
    [call |-> name, args |-> args, before |-> before, err |-> r.err, val |-> r.val]

-----------------------------------------------------------------------------
(* The regular expressions of parser.py.  A pattern is a sequence of items, *)
(* matched as Python's re does: leftmost, alternatives in the order         *)
(* written, greedy repeats longest first, lazy repeats shortest first, with *)
(* backtracking into the items already matched.                             *)

\* a character class: the categories \w \d \s and . it holds, and its characters
Class(cats, chars) == [cats |-> cats, chars |-> chars]

Lit(s)            == [op |-> "lit", s |-> s]                 \* the characters of s
One(c)            == [op |-> "one", class |-> c]             \* one character of class c
Rep(c, min, lazy) == [op |-> "rep", class |-> c, min |-> min, lazy |-> lazy]  \* c* c+ c+?
Grp(n, items)     == [op |-> "grp", n |-> n, items |-> items]      \* capturing group n
Opt(items)        == [op |-> "opt", items |-> items]               \* (?:items)?
Many(items)       == [op |-> "many", items |-> items]              \* (?:items)*
Alt(choices)      == [op |-> "alt", choices |-> choices]           \* a|b|c
AtEnd             == [op |-> "end"]                                \* $

\* a compiled pattern: its items, the number of its groups, the IGNORECASE flag
Pattern(items, groups, ignorecase) ==
    [items |-> items, groups |-> groups, ignorecase |-> ignorecase]

\* the result of a match: m.group(n) is caps[n], <<>> for a group that took no part
NoMatch == [ok |-> FALSE, pos |-> 0, caps |-> <<>>]
Matched(p, caps) == [ok |-> TRUE, pos |-> p, caps |-> caps]

IsWordChar(ch) == IsAlnum(ch) \/ ch = "_"

\* ch is in the class c; under IGNORECASE a character of the class stands for
\* both its cases
InClass(c, ch, ignorecase) ==
    \/ ch \in c.chars
    \/ ignorecase /\ \E x \in c.chars : LowerChar(x) = LowerChar(ch)
    \/ "w" \in c.cats /\ IsWordChar(ch)
    \/ "d" \in c.cats /\ IsDecimal(ch)
    \/ "s" \in c.cats /\ IsSpace(ch)
    \/ "any" \in c.cats /\ ch # "\n"

\* the literal s stands at position p of t
LitAt(t, p, s, ignorecase) ==
    /\ p + Len(s) <= Len(t)
    /\ IF ignorecase
       THEN Lower(Slice(t, p, p + Len(s))) = Lower(s)
       ELSE Slice(t, p, p + Len(s)) = s

\* the number of characters of class c that follow position p
RunLength(t, p, c, ignorecase) ==
    CHOOSE k \in 0..(Len(t) - p) :
        /\ \A j \in 1..k : InClass(c, t[p + j], ignorecase)
        /\ (p + k < Len(t) => ~InClass(c, t[p + k + 1], ignorecase))

\* $ without MULTILINE: the end of the text, or just before a newline that ends it
AtEndOf(t, p) == p = Len(t) \/ (p = Len(t) - 1 /\ t[Len(t)] = "\n")

\* the lengths a repeat tries, in the order it tries them: a greedy repeat
\* the longest first, a lazy one the shortest first
RepLengths(run, min, lazy) ==
    IF run < min THEN <<>>
    ELSE [i \in 1..(run - min + 1) |-> IF lazy THEN min + i - 1 ELSE run - i + 1]

\* A way of matching is the position reached and the groups captured so far.
\* The ways of matching a pattern are listed in the order in which the
\* backtracking matcher comes to them; the match is the first of them.
Way(p, caps) == [pos |-> p, caps |-> caps]

RECURSIVE MatchRange(_, _, _, _, _, _)
RECURSIVE MatchItem(_, _, _, _)
RECURSIVE MatchMany(_, _, _, _)

\* the ways of matching items after each of the ways ws, in order
MatchItems(items, ws, t, ic) == MatchRange(items, 1, Len(items), ws, t, ic)

\* the same for the items a..b: the first half, then the second half after it
MatchRange(items, a, b, ws, t, ic) ==
    CASE ws = <<>> \/ a > b -> ws
      [] ws # <<>> /\ a = b ->
            FlatRange([k \in 1..Len(ws) |-> MatchItem(items[a], ws[k], t, ic)], 1, Len(ws))
      [] ws # <<>> /\ a < b ->
            MatchRange(items, (a + b) \div 2 + 1, b,
                       MatchRange(items, a, (a + b) \div 2, ws, t, ic), t, ic)

\* the ways that end group n, opened at position start
CloseGroup(n, start, ws, t) ==
    [k \in 1..Len(ws) |-> [ws[k] EXCEPT !.caps[n] = Slice(t, start, ws[k].pos)]]

\* (?:items)* after each of the ways ws
ManyAfter(items, ws, t, ic) ==
    Flatten([k \in 1..Len(ws) |-> MatchMany(items, ws[k], t, ic)])

\* (?:items)* after the way w: one more round first, then none
MatchMany(items, w, t, ic) ==
    ManyAfter(items, MatchItems(items, <<w>>, t, ic), t, ic) \o <<w>>

\* the ways of matching the item h after the way w
MatchItem(h, w, t, ic) ==
    CASE h.op = "lit" ->
            IF LitAt(t, w.pos, h.s, ic) THEN <<Way(w.pos + Len(h.s), w.caps)>> ELSE <<>>
      [] h.op = "one" ->
            IF w.pos < Len(t) /\ InClass(h.class, t[w.pos + 1], ic)
            THEN <<Way(w.pos + 1, w.caps)>>
            ELSE <<>>
      [] h.op = "rep" ->
            [i \in 1..Len(RepLengths(RunLength(t, w.pos, h.class, ic), h.min, h.lazy)) |->
                Way(w.pos + RepLengths(RunLength(t, w.pos, h.class, ic), h.min, h.lazy)[i], w.caps)]
      [] h.op = "grp" -> CloseGroup(h.n, w.pos, MatchItems(h.items, <<w>>, t, ic), t)
      [] h.op = "opt" -> MatchItems(h.items, <<w>>, t, ic) \o <<w>>
      [] h.op = "many" -> MatchMany(h.items, w, t, ic)
      [] h.op = "alt" ->
            Flatten([i \in 1..Len(h.choices) |-> MatchItems(h.choices[i], <<w>>, t, ic)])
      [] h.op = "end" -> IF AtEndOf(t, w.pos) THEN <<w>> ELSE <<>>

\* the match object of the first way, or None
FirstWay(ws) == IF ws = <<>> THEN NoMatch ELSE Matched(ws[1].pos, ws[1].caps)

\* the way that starts at position p with no group captured
StartAt(pat, p) == Way(p, [n \in 1..pat.groups |-> <<>>])

\* the pattern at position p of t
MatchAt(pat, t, p) ==
    FirstWay(MatchItems(pat.items, <<StartAt(pat, p)>>, t, pat.ignorecase))

\* re.match(pat, t)
re_match(pat, t) == MatchAt(pat, t, 0)

\* re.search(pat, t): the start positions 0, 1, ..., len(t) in this order
re_search(pat, t) ==
    FirstWay(MatchItems(pat.items, [k \in 1..(Len(t) + 1) |-> StartAt(pat, k - 1)],
                        t, pat.ignorecase))

\* the patterns of english_to_dsl, in the order of the source
RULES == <<
    \* re.match (select|show|list) all(?: (\w+))? (?:of|from) (\w+)(?:\s+where\s+(\w+)\s*(>=|<=|=|>|<)\s*(\d+))? (IGNORECASE)
    \* (parser.py, line 64)
    Pattern(<<Grp(1, <<Alt(<<<<Lit(<<"s","e","l","e","c","t">>)>>, <<Lit(<<"s","h","o","w">>)>>, <<Lit(<<"l","i","s","t">>)>>>>)>>), Lit(<<" ","a","l","l">>), Opt(<<Lit(<<" ">>), Grp(2, <<Rep(Class({"w"}, {}), 1, FALSE)>>)>>), Lit(<<" ">>), Alt(<<<<Lit(<<"o","f">>)>>, <<Lit(<<"f","r","o","m">>)>>>>), Lit(<<" ">>), Grp(3, <<Rep(Class({"w"}, {}), 1, FALSE)>>), Opt(<<Rep(Class({"s"}, {}), 1, FALSE), Lit(<<"w","h","e","r","e">>), Rep(Class({"s"}, {}), 1, FALSE), Grp(4, <<Rep(Class({"w"}, {}), 1, FALSE)>>), Rep(Class({"s"}, {}), 0, FALSE), Grp(5, <<Alt(<<<<Lit(<<">","=">>)>>, <<Lit(<<"<","=">>)>>, <<Lit(<<"=">>)>>, <<Lit(<<">">>)>>, <<Lit(<<"<">>)>>>>)>>), Rep(Class({"s"}, {}), 0, FALSE), Grp(6, <<Rep(Class({"d"}, {}), 1, FALSE)>>)>>)>>, 6, TRUE),
    \* re.match (select|show|list) (?:all\s+)? (\w+) from (\w+) where (\w+) (>|<|=) (\d+)
    \* (parser.py, line 84)
    Pattern(<<Grp(1, <<Alt(<<<<Lit(<<"s","e","l","e","c","t">>)>>, <<Lit(<<"s","h","o","w">>)>>, <<Lit(<<"l","i","s","t">>)>>>>)>>), Lit(<<" ">>), Opt(<<Lit(<<"a","l","l">>), Rep(Class({"s"}, {}), 1, FALSE)>>), Lit(<<" ">>), Grp(2, <<Rep(Class({"w"}, {}), 1, FALSE)>>), Lit(<<" ","f","r","o","m"," ">>), Grp(3, <<Rep(Class({"w"}, {}), 1, FALSE)>>), Lit(<<" ","w","h","e","r","e"," ">>), Grp(4, <<Rep(Class({"w"}, {}), 1, FALSE)>>), Lit(<<" ">>), Grp(5, <<One(Class({}, {">", "<", "="}))>>), Lit(<<" ">>), Grp(6, <<Rep(Class({"d"}, {}), 1, FALSE)>>)>>, 6, FALSE),
    \* re.match (count|how many)\s+(\w+)(?:\s+from\s+(\w+))?(?:\s+where\s+(\w+)\s*(=|>|<)\s*(\d+))? (IGNORECASE)
    \* (parser.py, line 94)
    Pattern(<<Grp(1, <<Alt(<<<<Lit(<<"c","o","u","n","t">>)>>, <<Lit(<<"h","o","w"," ","m","a","n","y">>)>>>>)>>), Rep(Class({"s"}, {}), 1, FALSE), Grp(2, <<Rep(Class({"w"}, {}), 1, FALSE)>>), Opt(<<Rep(Class({"s"}, {}), 1, FALSE), Lit(<<"f","r","o","m">>), Rep(Class({"s"}, {}), 1, FALSE), Grp(3, <<Rep(Class({"w"}, {}), 1, FALSE)>>)>>), Opt(<<Rep(Class({"s"}, {}), 1, FALSE), Lit(<<"w","h","e","r","e">>), Rep(Class({"s"}, {}), 1, FALSE), Grp(4, <<Rep(Class({"w"}, {}), 1, FALSE)>>), Rep(Class({"s"}, {}), 0, FALSE), Grp(5, <<One(Class({}, {"=", ">", "<"}))>>), Rep(Class({"s"}, {}), 0, FALSE), Grp(6, <<Rep(Class({"d"}, {}), 1, FALSE)>>)>>)>>, 6, TRUE),
    \* re.match (sum|total)(?: (\w+))? from (\w+)(?: where (\w+)\s*=\s*(\w+))? (IGNORECASE)
    \* (parser.py, line 121)
    Pattern(<<Grp(1, <<Alt(<<<<Lit(<<"s","u","m">>)>>, <<Lit(<<"t","o","t","a","l">>)>>>>)>>), Opt(<<Lit(<<" ">>), Grp(2, <<Rep(Class({"w"}, {}), 1, FALSE)>>)>>), Lit(<<" ","f","r","o","m"," ">>), Grp(3, <<Rep(Class({"w"}, {}), 1, FALSE)>>), Opt(<<Lit(<<" ","w","h","e","r","e"," ">>), Grp(4, <<Rep(Class({"w"}, {}), 1, FALSE)>>), Rep(Class({"s"}, {}), 0, FALSE), Lit(<<"=">>), Rep(Class({"s"}, {}), 0, FALSE), Grp(5, <<Rep(Class({"w"}, {}), 1, FALSE)>>)>>)>>, 5, TRUE),
    \* re.match (select|show) all (\w+) where (\w+) (>=|<=|>|<|=) (\w+) order by(?: (\w+))?(?: (asc|desc))?
    \* (parser.py, line 143)
    Pattern(<<Grp(1, <<Lit(<<"s">>), Alt(<<<<Lit(<<"e","l","e","c","t">>)>>, <<Lit(<<"h","o","w">>)>>>>)>>), Lit(<<" ","a","l","l"," ">>), Grp(2, <<Rep(Class({"w"}, {}), 1, FALSE)>>), Lit(<<" ","w","h","e","r","e"," ">>), Grp(3, <<Rep(Class({"w"}, {}), 1, FALSE)>>), Lit(<<" ">>), Grp(4, <<Alt(<<<<Lit(<<">","=">>)>>, <<Lit(<<"<","=">>)>>, <<Lit(<<">">>)>>, <<Lit(<<"<">>)>>, <<Lit(<<"=">>)>>>>)>>), Lit(<<" ">>), Grp(5, <<Rep(Class({"w"}, {}), 1, FALSE)>>), Lit(<<" ","o","r","d","e","r"," ","b","y">>), Opt(<<Lit(<<" ">>), Grp(6, <<Rep(Class({"w"}, {}), 1, FALSE)>>)>>), Opt(<<Lit(<<" ">>), Grp(7, <<Alt(<<<<Lit(<<"a","s","c">>)>>, <<Lit(<<"d","e","s","c">>)>>>>)>>)>>)>>, 7, FALSE),
    \* re.match (select|show) all (\w+) order by(?: (\w+))?(?: (asc|desc))?
    \* (parser.py, line 155)
    Pattern(<<Grp(1, <<Lit(<<"s">>), Alt(<<<<Lit(<<"e","l","e","c","t">>)>>, <<Lit(<<"h","o","w">>)>>>>)>>), Lit(<<" ","a","l","l"," ">>), Grp(2, <<Rep(Class({"w"}, {}), 1, FALSE)>>), Lit(<<" ","o","r","d","e","r"," ","b","y">>), Opt(<<Lit(<<" ">>), Grp(3, <<Rep(Class({"w"}, {}), 1, FALSE)>>)>>), Opt(<<Lit(<<" ">>), Grp(4, <<Alt(<<<<Lit(<<"a","s","c">>)>>, <<Lit(<<"d","e","s","c">>)>>>>)>>)>>)>>, 4, FALSE),
    \* re.match (select|show) (\w+(?:, \w+)*) from (\w+) group by (\w+) (IGNORECASE)
    \* (parser.py, line 166)
    Pattern(<<Grp(1, <<Lit(<<"s">>), Alt(<<<<Lit(<<"e","l","e","c","t">>)>>, <<Lit(<<"h","o","w">>)>>>>)>>), Lit(<<" ">>), Grp(2, <<Rep(Class({"w"}, {}), 1, FALSE), Many(<<Lit(<<","," ">>), Rep(Class({"w"}, {}), 1, FALSE)>>)>>), Lit(<<" ","f","r","o","m"," ">>), Grp(3, <<Rep(Class({"w"}, {}), 1, FALSE)>>), Lit(<<" ","g","r","o","u","p"," ","b","y"," ">>), Grp(4, <<Rep(Class({"w"}, {}), 1, FALSE)>>)>>, 4, TRUE),
    \* re.match (select|show|display)(?:\s+(all))?(?:\s+([\w, ]+))?(?:\s+from)?\s+(\w+)\s+where\s+(\w+)\s*(>|<|=)\s*(\d+)\s+(and|or)\s+(\w+)\s*(>|<|=)\s*(\d+) (IGNORECASE)
    \* (parser.py, line 179)
    Pattern(<<Grp(1, <<Alt(<<<<Lit(<<"s","e","l","e","c","t">>)>>, <<Lit(<<"s","h","o","w">>)>>, <<Lit(<<"d","i","s","p","l","a","y">>)>>>>)>>), Opt(<<Rep(Class({"s"}, {}), 1, FALSE), Grp(2, <<Lit(<<"a","l","l">>)>>)>>), Opt(<<Rep(Class({"s"}, {}), 1, FALSE), Grp(3, <<Rep(Class({"w"}, {",", " "}), 1, FALSE)>>)>>), Opt(<<Rep(Class({"s"}, {}), 1, FALSE), Lit(<<"f","r","o","m">>)>>), Rep(Class({"s"}, {}), 1, FALSE), Grp(4, <<Rep(Class({"w"}, {}), 1, FALSE)>>), Rep(Class({"s"}, {}), 1, FALSE), Lit(<<"w","h","e","r","e">>), Rep(Class({"s"}, {}), 1, FALSE), Grp(5, <<Rep(Class({"w"}, {}), 1, FALSE)>>), Rep(Class({"s"}, {}), 0, FALSE), Grp(6, <<One(Class({}, {">", "<", "="}))>>), Rep(Class({"s"}, {}), 0, FALSE), Grp(7, <<Rep(Class({"d"}, {}), 1, FALSE)>>), Rep(Class({"s"}, {}), 1, FALSE), Grp(8, <<Alt(<<<<Lit(<<"a","n","d">>)>>, <<Lit(<<"o","r">>)>>>>)>>), Rep(Class({"s"}, {}), 1, FALSE), Grp(9, <<Rep(Class({"w"}, {}), 1, FALSE)>>), Rep(Class({"s"}, {}), 0, FALSE), Grp(10, <<One(Class({}, {">", "<", "="}))>>), Rep(Class({"s"}, {}), 0, FALSE), Grp(11, <<Rep(Class({"d"}, {}), 1, FALSE)>>)>>, 11, TRUE),
    \* re.match (insert into|add new row into)\s+(\w+)\s+values\s+(.+) (IGNORECASE)
    \* (parser.py, line 206)
    Pattern(<<Grp(1, <<Alt(<<<<Lit(<<"i","n","s","e","r","t"," ","i","n","t","o">>)>>, <<Lit(<<"a","d","d"," ","n","e","w"," ","r","o","w"," ","i","n","t","o">>)>>>>)>>), Rep(Class({"s"}, {}), 1, FALSE), Grp(2, <<Rep(Class({"w"}, {}), 1, FALSE)>>), Rep(Class({"s"}, {}), 1, FALSE), Lit(<<"v","a","l","u","e","s">>), Rep(Class({"s"}, {}), 1, FALSE), Grp(3, <<Rep(Class({"any"}, {}), 1, FALSE)>>)>>, 3, TRUE),
    \* re.match (update|change)\s+(\w+)\s+set\s+(\w+)\s*=\s*([\w' ]+)\s+where\s+(\w+)\s*=\s*([\w' ]+) (IGNORECASE)
    \* (parser.py, line 212)
    Pattern(<<Grp(1, <<Alt(<<<<Lit(<<"u","p","d","a","t","e">>)>>, <<Lit(<<"c","h","a","n","g","e">>)>>>>)>>), Rep(Class({"s"}, {}), 1, FALSE), Grp(2, <<Rep(Class({"w"}, {}), 1, FALSE)>>), Rep(Class({"s"}, {}), 1, FALSE), Lit(<<"s","e","t">>), Rep(Class({"s"}, {}), 1, FALSE), Grp(3, <<Rep(Class({"w"}, {}), 1, FALSE)>>), Rep(Class({"s"}, {}), 0, FALSE), Lit(<<"=">>), Rep(Class({"s"}, {}), 0, FALSE), Grp(4, <<Rep(Class({"w"}, {"'", " "}), 1, FALSE)>>), Rep(Class({"s"}, {}), 1, FALSE), Lit(<<"w","h","e","r","e">>), Rep(Class({"s"}, {}), 1, FALSE), Grp(5, <<Rep(Class({"w"}, {}), 1, FALSE)>>), Rep(Class({"s"}, {}), 0, FALSE), Lit(<<"=">>), Rep(Class({"s"}, {}), 0, FALSE), Grp(6, <<Rep(Class({"w"}, {"'", " "}), 1, FALSE)>>)>>, 6, TRUE),
    \* re.match (delete from|remove from)\s+(\w+)\s+where\s+(\w+)\s*(=|>|<)\s*([\w' ]+) (IGNORECASE)
    \* (parser.py, line 218)
    Pattern(<<Grp(1, <<Alt(<<<<Lit(<<"d","e","l","e","t","e"," ","f","r","o","m">>)>>, <<Lit(<<"r","e","m","o","v","e"," ","f","r","o","m">>)>>>>)>>), Rep(Class({"s"}, {}), 1, FALSE), Grp(2, <<Rep(Class({"w"}, {}), 1, FALSE)>>), Rep(Class({"s"}, {}), 1, FALSE), Lit(<<"w","h","e","r","e">>), Rep(Class({"s"}, {}), 1, FALSE), Grp(3, <<Rep(Class({"w"}, {}), 1, FALSE)>>), Rep(Class({"s"}, {}), 0, FALSE), Grp(4, <<One(Class({}, {"=", ">", "<"}))>>), Rep(Class({"s"}, {}), 0, FALSE), Grp(5, <<Rep(Class({"w"}, {"'", " "}), 1, FALSE)>>)>>, 5, TRUE),
    \* re.match (delete|remove)\s+(column|columns|col)\s+([\w, ]+)\s+from\s+(\w+) (IGNORECASE)
    \* (parser.py, line 224)
    Pattern(<<Grp(1, <<Alt(<<<<Lit(<<"d","e","l","e","t","e">>)>>, <<Lit(<<"r","e","m","o","v","e">>)>>>>)>>), Rep(Class({"s"}, {}), 1, FALSE), Grp(2, <<Lit(<<"c","o","l">>), Alt(<<<<Lit(<<"u","m","n">>)>>, <<Lit(<<"u","m","n","s">>)>>, <<>>>>)>>), Rep(Class({"s"}, {}), 1, FALSE), Grp(3, <<Rep(Class({"w"}, {",", " "}), 1, FALSE)>>), Rep(Class({"s"}, {}), 1, FALSE), Lit(<<"f","r","o","m">>), Rep(Class({"s"}, {}), 1, FALSE), Grp(4, <<Rep(Class({"w"}, {}), 1, FALSE)>>)>>, 4, TRUE),
    \* re.match (find|search)\s+(\w+)\s+where\s+(\w+)\s+(contains|like)\s+'(.+)' (IGNORECASE)
    \* (parser.py, line 232)
    Pattern(<<Grp(1, <<Alt(<<<<Lit(<<"f","i","n","d">>)>>, <<Lit(<<"s","e","a","r","c","h">>)>>>>)>>), Rep(Class({"s"}, {}), 1, FALSE), Grp(2, <<Rep(Class({"w"}, {}), 1, FALSE)>>), Rep(Class({"s"}, {}), 1, FALSE), Lit(<<"w","h","e","r","e">>), Rep(Class({"s"}, {}), 1, FALSE), Grp(3, <<Rep(Class({"w"}, {}), 1, FALSE)>>), Rep(Class({"s"}, {}), 1, FALSE), Grp(4, <<Alt(<<<<Lit(<<"c","o","n","t","a","i","n","s">>)>>, <<Lit(<<"l","i","k","e">>)>>>>)>>), Rep(Class({"s"}, {}), 1, FALSE), Lit(<<"'">>), Grp(5, <<Rep(Class({"any"}, {}), 1, FALSE)>>), Lit(<<"'">>)>>, 5, TRUE),
    \* re.match select\s+(\w+)\s+where\s+(\w+)\s+between\s+(\d+)\s+and\s+(\d+) (IGNORECASE)
    \* (parser.py, line 238)
    Pattern(<<Lit(<<"s","e","l","e","c","t">>), Rep(Class({"s"}, {}), 1, FALSE), Grp(1, <<Rep(Class({"w"}, {}), 1, FALSE)>>), Rep(Class({"s"}, {}), 1, FALSE), Lit(<<"w","h","e","r","e">>), Rep(Class({"s"}, {}), 1, FALSE), Grp(2, <<Rep(Class({"w"}, {}), 1, FALSE)>>), Rep(Class({"s"}, {}), 1, FALSE), Lit(<<"b","e","t","w","e","e","n">>), Rep(Class({"s"}, {}), 1, FALSE), Grp(3, <<Rep(Class({"d"}, {}), 1, FALSE)>>), Rep(Class({"s"}, {}), 1, FALSE), Lit(<<"a","n","d">>), Rep(Class({"s"}, {}), 1, FALSE), Grp(4, <<Rep(Class({"d"}, {}), 1, FALSE)>>)>>, 4, TRUE),
    \* re.match select\s+(\w+)\s+where\s+(\w+)\s+in\s+(.+) (IGNORECASE)
    \* (parser.py, line 244)
    Pattern(<<Lit(<<"s","e","l","e","c","t">>), Rep(Class({"s"}, {}), 1, FALSE), Grp(1, <<Rep(Class({"w"}, {}), 1, FALSE)>>), Rep(Class({"s"}, {}), 1, FALSE), Lit(<<"w","h","e","r","e">>), Rep(Class({"s"}, {}), 1, FALSE), Grp(2, <<Rep(Class({"w"}, {}), 1, FALSE)>>), Rep(Class({"s"}, {}), 1, FALSE), Lit(<<"i","n">>), Rep(Class({"s"}, {}), 1, FALSE), Grp(3, <<Rep(Class({"any"}, {}), 1, FALSE)>>)>>, 3, TRUE),
    \* re.match select\s+(distinct|unique)\s+(\w+)\s+from\s+(\w+) (IGNORECASE)
    \* (parser.py, line 251)
    Pattern(<<Lit(<<"s","e","l","e","c","t">>), Rep(Class({"s"}, {}), 1, FALSE), Grp(1, <<Alt(<<<<Lit(<<"d","i","s","t","i","n","c","t">>)>>, <<Lit(<<"u","n","i","q","u","e">>)>>>>)>>), Rep(Class({"s"}, {}), 1, FALSE), Grp(2, <<Rep(Class({"w"}, {}), 1, FALSE)>>), Rep(Class({"s"}, {}), 1, FALSE), Lit(<<"f","r","o","m">>), Rep(Class({"s"}, {}), 1, FALSE), Grp(3, <<Rep(Class({"w"}, {}), 1, FALSE)>>)>>, 3, TRUE),
    \* re.match (?:show|give|display|get)\s+me\s+(?:all\s+)?(\w+) (IGNORECASE)
    \* (parser.py, line 258)
    Pattern(<<Alt(<<<<Lit(<<"s","h","o","w">>)>>, <<Lit(<<"g","i","v","e">>)>>, <<Lit(<<"d","i","s","p","l","a","y">>)>>, <<Lit(<<"g","e","t">>)>>>>), Rep(Class({"s"}, {}), 1, FALSE), Lit(<<"m","e">>), Rep(Class({"s"}, {}), 1, FALSE), Opt(<<Lit(<<"a","l","l">>), Rep(Class({"s"}, {}), 1, FALSE)>>), Grp(1, <<Rep(Class({"w"}, {}), 1, FALSE)>>)>>, 1, TRUE),
    \* re.match get\s+all\s+(\w+) (IGNORECASE)
    \* (parser.py, line 264)
    Pattern(<<Lit(<<"g","e","t">>), Rep(Class({"s"}, {}), 1, FALSE), Lit(<<"a","l","l">>), Rep(Class({"s"}, {}), 1, FALSE), Grp(1, <<Rep(Class({"w"}, {}), 1, FALSE)>>)>>, 1, TRUE)
>>

\* the patterns of parse_dsl, in the order of the source
DSL_PATTERNS == <<
    \* re.match INSERT INTO (\w+) VALUES \((.+)\) (IGNORECASE)
    \* (parser.py, line 377)
    Pattern(<<Lit(<<"I","N","S","E","R","T"," ","I","N","T","O"," ">>), Grp(1, <<Rep(Class({"w"}, {}), 1, FALSE)>>), Lit(<<" ","V","A","L","U","E","S"," ","(">>), Grp(2, <<Rep(Class({"any"}, {}), 1, FALSE)>>), Lit(<<")">>)>>, 2, TRUE),
    \* re.match UPDATE (\w+) SET (\w+)\s*=\s*(.+?) WHERE (\w+)\s*=\s*(.+) (IGNORECASE)
    \* (parser.py, line 382)
    Pattern(<<Lit(<<"U","P","D","A","T","E"," ">>), Grp(1, <<Rep(Class({"w"}, {}), 1, FALSE)>>), Lit(<<" ","S","E","T"," ">>), Grp(2, <<Rep(Class({"w"}, {}), 1, FALSE)>>), Rep(Class({"s"}, {}), 0, FALSE), Lit(<<"=">>), Rep(Class({"s"}, {}), 0, FALSE), Grp(3, <<Rep(Class({"any"}, {}), 1, TRUE)>>), Lit(<<" ","W","H","E","R","E"," ">>), Grp(4, <<Rep(Class({"w"}, {}), 1, FALSE)>>), Rep(Class({"s"}, {}), 0, FALSE), Lit(<<"=">>), Rep(Class({"s"}, {}), 0, FALSE), Grp(5, <<Rep(Class({"any"}, {}), 1, FALSE)>>)>>, 5, TRUE),
    \* re.match DELETE FROM (\w+) WHERE (\w+)\s*(=|>|<)\s*(.+) (IGNORECASE)
    \* (parser.py, line 387)
    Pattern(<<Lit(<<"D","E","L","E","T","E"," ","F","R","O","M"," ">>), Grp(1, <<Rep(Class({"w"}, {}), 1, FALSE)>>), Lit(<<" ","W","H","E","R","E"," ">>), Grp(2, <<Rep(Class({"w"}, {}), 1, FALSE)>>), Rep(Class({"s"}, {}), 0, FALSE), Grp(3, <<One(Class({}, {"=", ">", "<"}))>>), Rep(Class({"s"}, {}), 0, FALSE), Grp(4, <<Rep(Class({"any"}, {}), 1, FALSE)>>)>>, 4, TRUE),
    \* re.match ALTER TABLE (\w+) (DROP COLUMN .+) (IGNORECASE)
    \* (parser.py, line 392)
    Pattern(<<Lit(<<"A","L","T","E","R"," ","T","A","B","L","E"," ">>), Grp(1, <<Rep(Class({"w"}, {}), 1, FALSE)>>), Lit(<<" ">>), Grp(2, <<Lit(<<"D","R","O","P"," ","C","O","L","U","M","N"," ">>), Rep(Class({"any"}, {}), 1, FALSE)>>)>>, 2, TRUE),
    \* re.match SELECT DISTINCT (\w+) FROM (\w+) (IGNORECASE)
    \* (parser.py, line 398)
    Pattern(<<Lit(<<"S","E","L","E","C","T"," ","D","I","S","T","I","N","C","T"," ">>), Grp(1, <<Rep(Class({"w"}, {}), 1, FALSE)>>), Lit(<<" ","F","R","O","M"," ">>), Grp(2, <<Rep(Class({"w"}, {}), 1, FALSE)>>)>>, 2, TRUE),
    \* re.match SELECT COUNT\((\w+|\*)\) FROM (\w+)
    \* (parser.py, line 403)
    Pattern(<<Lit(<<"S","E","L","E","C","T"," ","C","O","U","N","T","(">>), Grp(1, <<Alt(<<<<Rep(Class({"w"}, {}), 1, FALSE)>>, <<Lit(<<"*">>)>>>>)>>), Lit(<<")"," ","F","R","O","M"," ">>), Grp(2, <<Rep(Class({"w"}, {}), 1, FALSE)>>)>>, 2, FALSE),
    \* re.match SELECT SUM\((\w+|\*)\) FROM (\w+)
    \* (parser.py, line 409)
    Pattern(<<Lit(<<"S","E","L","E","C","T"," ","S","U","M","(">>), Grp(1, <<Alt(<<<<Rep(Class({"w"}, {}), 1, FALSE)>>, <<Lit(<<"*">>)>>>>)>>), Lit(<<")"," ","F","R","O","M"," ">>), Grp(2, <<Rep(Class({"w"}, {}), 1, FALSE)>>)>>, 2, FALSE),
    \* re.match SELECT (.+) FROM (\w+)
    \* (parser.py, line 415)
    Pattern(<<Lit(<<"S","E","L","E","C","T"," ">>), Grp(1, <<Rep(Class({"any"}, {}), 1, FALSE)>>), Lit(<<" ","F","R","O","M"," ">>), Grp(2, <<Rep(Class({"w"}, {}), 1, FALSE)>>)>>, 2, FALSE),
    \* re.search WHERE (\w+) BETWEEN (\d+) AND (\d+)
    \* (parser.py, line 426)
    Pattern(<<Lit(<<"W","H","E","R","E"," ">>), Grp(1, <<Rep(Class({"w"}, {}), 1, FALSE)>>), Lit(<<" ","B","E","T","W","E","E","N"," ">>), Grp(2, <<Rep(Class({"d"}, {}), 1, FALSE)>>), Lit(<<" ","A","N","D"," ">>), Grp(3, <<Rep(Class({"d"}, {}), 1, FALSE)>>)>>, 3, FALSE),
    \* re.search WHERE (\w+) IN \((.+)\)
    \* (parser.py, line 431)
    Pattern(<<Lit(<<"W","H","E","R","E"," ">>), Grp(1, <<Rep(Class({"w"}, {}), 1, FALSE)>>), Lit(<<" ","I","N"," ","(">>), Grp(2, <<Rep(Class({"any"}, {}), 1, FALSE)>>), Lit(<<")">>)>>, 2, FALSE),
    \* re.search WHERE (\w+) LIKE '(.+)'
    \* (parser.py, line 436)
    Pattern(<<Lit(<<"W","H","E","R","E"," ">>), Grp(1, <<Rep(Class({"w"}, {}), 1, FALSE)>>), Lit(<<" ","L","I","K","E"," ","'">>), Grp(2, <<Rep(Class({"any"}, {}), 1, FALSE)>>), Lit(<<"'">>)>>, 2, FALSE),
    \* re.search WHERE (\w+) (>|<|=) (\w+) (AND|OR) (\w+) (>|<|=) (\w+)
    \* (parser.py, line 441)
    Pattern(<<Lit(<<"W","H","E","R","E"," ">>), Grp(1, <<Rep(Class({"w"}, {}), 1, FALSE)>>), Lit(<<" ">>), Grp(2, <<One(Class({}, {">", "<", "="}))>>), Lit(<<" ">>), Grp(3, <<Rep(Class({"w"}, {}), 1, FALSE)>>), Lit(<<" ">>), Grp(4, <<Alt(<<<<Lit(<<"A","N","D">>)>>, <<Lit(<<"O","R">>)>>>>)>>), Lit(<<" ">>), Grp(5, <<Rep(Class({"w"}, {}), 1, FALSE)>>), Lit(<<" ">>), Grp(6, <<One(Class({}, {">", "<", "="}))>>), Lit(<<" ">>), Grp(7, <<Rep(Class({"w"}, {}), 1, FALSE)>>)>>, 7, FALSE),
    \* re.search WHERE (\w+)\s*(=|>|<)\s*(.+?)(?:\s+ORDER|\s+GROUP|$)
    \* (parser.py, line 449)
    Pattern(<<Lit(<<"W","H","E","R","E"," ">>), Grp(1, <<Rep(Class({"w"}, {}), 1, FALSE)>>), Rep(Class({"s"}, {}), 0, FALSE), Grp(2, <<One(Class({}, {"=", ">", "<"}))>>), Rep(Class({"s"}, {}), 0, FALSE), Grp(3, <<Rep(Class({"any"}, {}), 1, TRUE)>>), Alt(<<<<Rep(Class({"s"}, {}), 1, FALSE), Lit(<<"O","R","D","E","R">>)>>, <<Rep(Class({"s"}, {}), 1, FALSE), Lit(<<"G","R","O","U","P">>)>>, <<AtEnd>>>>)>>, 3, FALSE),
    \* re.search ORDER BY (\w+)(?: (ASC|DESC))?
    \* (parser.py, line 455)
    Pattern(<<Lit(<<"O","R","D","E","R"," ","B","Y"," ">>), Grp(1, <<Rep(Class({"w"}, {}), 1, FALSE)>>), Opt(<<Lit(<<" ">>), Grp(2, <<Alt(<<<<Lit(<<"A","S","C">>)>>, <<Lit(<<"D","E","S","C">>)>>>>)>>)>>)>>, 2, FALSE),
    \* re.search GROUP BY (\w+)
    \* (parser.py, line 461)
    Pattern(<<Lit(<<"G","R","O","U","P"," ","B","Y"," ">>), Grp(1, <<Rep(Class({"w"}, {}), 1, FALSE)>>)>>, 1, FALSE)
>>

-----------------------------------------------------------------------------
(* The legacy translator of parser.py: English -> DSL -> AST -> SQL.  None  *)
(* is <<>> for a string (no string of the legacy AST is empty) and NoNode   *)
(* for a node.                                                              *)

\* str.upper on one character, and str.upper
UpperChar(c) ==
    IF c \in LowerSet
    THEN UpperChars[CHOOSE i \in 1..Len(LowerChars) : LowerChars[i] = c]
    ELSE c
Upper(t) == [i \in 1..Len(t) |-> UpperChar(t[i])]

\* the concatenation of the strings of parts (an f-string)
Cat(parts) == Flatten(parts)

\* the indices of the commas of t
Commas(t) == {i \in 1..Len(t) : t[i] = ","}

\* the index of the k-th comma of t; 0 before the first, len(t) + 1 after the last
CommaAt(t, k) ==
    IF k = 0 THEN 0
    ELSE IF k > Cardinality(Commas(t)) THEN Len(t) + 1
    ELSE Nth(Commas(t), k)

\* t.split(","): the pieces of t between the commas
Split(t) ==
    [k \in 1..(Cardinality(Commas(t)) + 1) |->
        SubSeq(t, CommaAt(t, k - 1) + 1, CommaAt(t, k) - 1)]

\* "[c.strip() for c in t.split(",")]"
StripAll(t) == [i \in 1..Len(Split(t)) |-> Strip(Split(t)[i])]

\* the replacements of normalize_operators, in order
NORMALIZE == <<
    <<<<"i","s"," ","e","q","u","a","l"," ","t","o">>, <<"=">>>>,
    <<<<"e","q","u","a","l"," ","t","o">>, <<"=">>>>,
    <<<<"e","q","u","a","l","s">>, <<"=">>>>,
    <<<<"e","q","u","a","l">>, <<"=">>>>,
    <<<<"s","a","m","e"," ","a","s">>, <<"=">>>>,
    <<<<"g","r","e","a","t","e","r"," ","t","h","a","n"," ","o","r"," ","e","q","u","a","l"," ","t","o">>, <<">","=">>>>,
    <<<<"l","e","s","s"," ","t","h","a","n"," ","o","r"," ","e","q","u","a","l"," ","t","o">>, <<"<","=">>>>,
    <<<<"g","r","e","a","t","e","r"," ","t","h","a","n">>, <<">">>>>,
    <<<<"l","e","s","s"," ","t","h","a","n">>, <<"<">>>>
>>

RECURSIVE ReplaceAll(_, _, _)
ReplaceAll(t, pairs, i) ==
    IF t = <<>> \/ i > Len(pairs) THEN t
    ELSE ReplaceAll(Replace(t, pairs[i][1], pairs[i][2]), pairs, i + 1)

normalize_operators(t) == ReplaceAll(Lower(t), NORMALIZE, 1)

\* " WHERE col op val" when the optional WHERE group took part
OptionalWhereText(col, op, val) ==
    IF col # <<>> THEN Cat(<<<<" ","W","H","E","R","E"," ">>, col, <<" ">>, op, <<" ">>, val>>) ELSE <<>>

\* "DROP COLUMN a, DROP COLUMN b" of Rule 11 and of the generator
DropParts(cols) == Join([i \in 1..Len(cols) |-> <<"D","R","O","P"," ","C","O","L","U","M","N"," ">> \o cols[i]], <<","," ">>)

\* the DSL text that rule i of english_to_dsl returns on the groups g of its match
DslOfRule(i, g) ==
    CASE i = 1 ->
            (IF g[2] # <<>> THEN Cat(<<<<"S","E","L","E","C","T"," ">>, g[2], <<" ","F","R","O","M"," ">>, g[3]>>)
             ELSE <<"S","E","L","E","C","T"," ","*"," ","F","R","O","M"," ">> \o g[3])
            \o OptionalWhereText(g[4], g[5], g[6])
      [] i = 2 ->
            Cat(<<<<"S","E","L","E","C","T"," ">>, g[2], <<" ","F","R","O","M"," ">>, g[3], <<" ","W","H","E","R","E"," ">>, g[4], <<" ">>, g[5], <<" ">>, g[6]>>)
      [] i = 3 ->
            (IF g[3] = <<>> THEN <<"S","E","L","E","C","T"," ","C","O","U","N","T","(","*",")"," ","F","R","O","M"," ">> \o g[2]
             ELSE Cat(<<<<"S","E","L","E","C","T"," ","C","O","U","N","T","(">>, g[2], <<")"," ","F","R","O","M"," ">>, g[3]>>))
            \o OptionalWhereText(g[4], g[5], g[6])
      [] i = 4 ->
            (IF g[2] # <<>> THEN Cat(<<<<"S","E","L","E","C","T"," ","S","U","M","(">>, g[2], <<")"," ","F","R","O","M"," ">>, g[3]>>)
             ELSE <<"S","E","L","E","C","T"," ","S","U","M","(","*",")"," ","F","R","O","M"," ">> \o g[3])
            \o OptionalWhereText(g[4], <<"=">>, g[5])
      [] i = 5 ->
            Strip(Cat(<<<<"S","E","L","E","C","T"," ","*"," ","F","R","O","M"," ">>, g[2], <<" ","W","H","E","R","E"," ">>, g[3], <<" ">>, g[4], <<" ">>, g[5],
                        <<" ","O","R","D","E","R"," ","B","Y"," ">>, IF g[6] # <<>> THEN g[6] ELSE <<"i","d">>, <<" ">>, Upper(g[7])>>))
      [] i = 6 ->
            Strip(Cat(<<<<"S","E","L","E","C","T"," ","*"," ","F","R","O","M"," ">>, g[2],
                        <<" ","O","R","D","E","R"," ","B","Y"," ">>, IF g[3] # <<>> THEN g[3] ELSE <<"i","d">>, <<" ">>, Upper(g[4])>>))
      [] i = 7 ->
            Cat(<<<<"S","E","L","E","C","T"," ">>, Join(StripAll(g[2]), <<","," ">>), <<" ","F","R","O","M"," ">>, g[3], <<" ","G","R","O","U","P"," ","B","Y"," ">>, g[4]>>)
      [] i = 8 ->
            Cat(<<IF g[2] # <<>> \/ g[3] = <<>> THEN <<"S","E","L","E","C","T"," ","*">>
                  ELSE <<"S","E","L","E","C","T"," ">> \o Join(StripAll(g[3]), <<",">>),
                  <<" ","F","R","O","M"," ">>, g[4], <<" ","W","H","E","R","E"," ">>, g[5], <<" ">>, g[6], <<" ">>, g[7], <<" ">>,
                  Upper(g[8]), <<" ">>, g[9], <<" ">>, g[10], <<" ">>, g[11]>>)
      [] i = 9 ->
            Cat(<<<<"I","N","S","E","R","T"," ","I","N","T","O"," ">>, g[2], <<" ","V","A","L","U","E","S"," ","(">>, g[3], <<")">>>>)
      [] i = 10 ->
            Cat(<<<<"U","P","D","A","T","E"," ">>, g[2], <<" ","S","E","T"," ">>, g[3], <<" ","="," ">>, g[4], <<" ","W","H","E","R","E"," ">>, g[5], <<" ","="," ">>, g[6]>>)
      [] i = 11 ->
            Cat(<<<<"D","E","L","E","T","E"," ","F","R","O","M"," ">>, g[2], <<" ","W","H","E","R","E"," ">>, g[3], <<" ">>, g[4], <<" ">>, g[5]>>)
      [] i = 12 ->
            Cat(<<<<"A","L","T","E","R"," ","T","A","B","L","E"," ">>, g[4], <<" ">>, DropParts(StripAll(g[3]))>>)
      [] i = 13 ->
            Cat(<<<<"S","E","L","E","C","T"," ","*"," ","F","R","O","M"," ">>, g[2], <<" ","W","H","E","R","E"," ">>, g[3], <<" ","L","I","K","E"," ","'","%">>, g[5], <<"%","'">>>>)
      [] i = 14 ->
            Cat(<<<<"S","E","L","E","C","T"," ","*"," ","F","R","O","M"," ">>, g[1], <<" ","W","H","E","R","E"," ">>, g[2], <<" ","B","E","T","W","E","E","N"," ">>, g[3], <<" ","A","N","D"," ">>, g[4]>>)
      [] i = 15 ->
            Cat(<<<<"S","E","L","E","C","T"," ","*"," ","F","R","O","M"," ">>, g[1], <<" ","W","H","E","R","E"," ">>, g[2], <<" ","I","N"," ","(">>,
                  Join(StripAll(g[3]), <<",">>), <<")">>>>)
      [] i = 16 ->
            Cat(<<<<"S","E","L","E","C","T"," ","D","I","S","T","I","N","C","T"," ">>, g[2], <<" ","F","R","O","M"," ">>, g[3]>>)
      [] i \in {17, 18} ->
            <<"S","E","L","E","C","T"," ","*"," ","F","R","O","M"," ">> \o g[1]

NoRule == <<"N","o"," ","m","a","t","c","h","i","n","g"," ","r","u","l","e"," ","f","o","u","n","d">>

\* the least member of a non-empty set of numbers
Least(S) == CHOOSE i \in S : \A j \in S : i <= j

\* the rules of english_to_dsl whose pattern matches the normalized text t
MatchingRules(t) == {i \in 1..Len(RULES) : re_match(RULES[i], t).ok}

\* the rules are tried in order: the first whose pattern matches returns
RuleOnMatch(i, m) == IF m.ok THEN DslOfRule(i, m.caps) ELSE NoRule
FirstRule(S, t) ==
    IF S = {} THEN NoRule ELSE RuleOnMatch(Least(S), re_match(RULES[Least(S)], t))

\* english_to_dsl
NormalizedRules(t) == IF t = <<>> THEN NoRule ELSE FirstRule(MatchingRules(t), t)
english_to_dsl(t) == NormalizedRules(Lower(normalize_operators(t)))

\* the classes of the legacy AST, and the dict that parse_dsl returns on failure
LegacySelect(columns, table, where, order, group, func, distinct) ==
    [node |-> "Select", columns |-> columns, table |-> table, where |-> where,
     order |-> order, group |-> group, func |-> func, distinct |-> distinct]
LegacyCondition(column, op, value) ==
    [node |-> "Condition", column |-> column, op |-> op, value |-> value]
LegacyWhere(left) == [node |-> "Where", left |-> left]
ErrorDict == [node |-> "dict", error |-> <<"C","o","u","l","d"," ","n","o","t"," ","p","a","r","s","e"," ","D","S","L">>]

\* "None if m.group(1) == '*' else m.group(1)"
FuncColumn(c) == IF c = <<"*">> THEN <<>> ELSE c

\* the where_node of parse_dsl: a later assignment replaces an earlier one, and
\* the simple condition is tried only when none of the four was assigned
SimpleWhere(m) ==
    IF m.ok THEN LegacyWhere(LegacyCondition(m.caps[1], m.caps[2], Strip(m.caps[3])))
    ELSE NoNode
BetweenWhere(m, t) ==
    IF m.ok
    THEN LegacyWhere([node |-> "Between", column |-> m.caps[1], low |-> m.caps[2],
                      high |-> m.caps[3]])
    ELSE SimpleWhere(re_search(DSL_PATTERNS[13], t))
InWhere(m, t) ==
    IF m.ok THEN LegacyWhere([node |-> "In", column |-> m.caps[1], values |-> StripAll(m.caps[2])])
    ELSE BetweenWhere(re_search(DSL_PATTERNS[9], t), t)
LikeWhere(m, t) ==
    IF m.ok THEN LegacyWhere([node |-> "Like", column |-> m.caps[1], pattern |-> m.caps[2]])
    ELSE InWhere(re_search(DSL_PATTERNS[10], t), t)
AndOrWhere(m, t) ==
    IF m.ok
    THEN LegacyWhere([node |-> IF m.caps[4] = <<"A","N","D">> THEN "And" ELSE "Or",
                      left |-> LegacyCondition(m.caps[1], m.caps[2], m.caps[3]),
                      right |-> LegacyCondition(m.caps[5], m.caps[6], m.caps[7])])
    ELSE LikeWhere(re_search(DSL_PATTERNS[11], t), t)
WhereOf(t) == AndOrWhere(re_search(DSL_PATTERNS[12], t), t)

OrderOf(m) ==
    IF m.ok
    THEN [node |-> "Order", column |-> m.caps[1],
          direction |-> IF m.caps[2] # <<>> THEN m.caps[2] ELSE <<"A","S","C">>]
    ELSE NoNode
GroupOf(m) == IF m.ok THEN [node |-> "Group", column |-> m.caps[1]] ELSE NoNode

\* "[c.replace('DROP COLUMN', '').strip() for c in m.group(2).split(',')]"
DroppedColumns(t) ==
    [i \in 1..Len(Split(t)) |-> Strip(Replace(Split(t)[i], <<"D","R","O","P"," ","C","O","L","U","M","N">>, <<>>))]

\* the node that parse_dsl builds when its i-th pattern is the first to match
NodeOfDsl(i, g, t) ==
    CASE i = 1 -> [node |-> "Insert", table |-> g[1], values |-> StripAll(g[2])]
      [] i = 2 -> [node |-> "Update", table |-> g[1], col_set |-> g[2], val_set |-> Strip(g[3]),
                   cond_col |-> g[4], cond_val |-> Strip(g[5])]
      [] i = 3 -> [node |-> "Delete", table |-> g[1], column |-> g[2], op |-> g[3], value |-> g[4]]
      [] i = 4 -> [node |-> "DropColumn", table |-> g[1], columns |-> DroppedColumns(g[2])]
      [] i = 5 -> LegacySelect(<<g[1]>>, g[2], NoNode, NoNode, NoNode, NoNode, TRUE)
      [] i = 6 -> LegacySelect(<<<<"C","O","U","N","T">>>>, g[2], NoNode, NoNode, NoNode,
                               [node |-> "CountFunc", column |-> FuncColumn(g[1])], FALSE)
      [] i = 7 -> LegacySelect(<<<<"S","U","M">>>>, g[2], NoNode, NoNode, NoNode,
                               [node |-> "SumFunc", column |-> FuncColumn(g[1])], FALSE)
      [] i = 8 -> LegacySelect(IF g[1] = <<"*">> THEN <<g[1]>> ELSE StripAll(g[1]), g[2],
                               WhereOf(t), OrderOf(re_search(DSL_PATTERNS[14], t)),
                               GroupOf(re_search(DSL_PATTERNS[15], t)), NoNode, FALSE)

\* the statement patterns of parse_dsl that match the stripped text t
MatchingStatements(t) == {i \in 1..8 : re_match(DSL_PATTERNS[i], t).ok}

\* the statement patterns are tried in order: the first that matches returns
StatementOnMatch(i, m, t) == IF m.ok THEN NodeOfDsl(i, m.caps, t) ELSE ErrorDict
FirstStatement(S, t) ==
    IF S = {} THEN ErrorDict
    ELSE StatementOnMatch(Least(S), re_match(DSL_PATTERNS[Least(S)], t), t)

\* parse_dsl
StrippedDsl(t) == IF t = <<>> THEN ErrorDict ELSE FirstStatement(MatchingStatements(t), t)
parse_dsl(t) == StrippedDsl(Strip(t))

\* generate_condition
RECURSIVE generate_condition(_)
generate_condition(c) ==
    CASE c.node = "Condition" -> Cat(<<c.column, <<" ">>, c.op, <<" ">>, c.value>>)
      [] c.node = "And" ->
            Cat(<<<<"(">>, generate_condition(c.left), <<" ","A","N","D"," ">>, generate_condition(c.right), <<")">>>>)
      [] c.node = "Or" ->
            Cat(<<<<"(">>, generate_condition(c.left), <<" ","O","R"," ">>, generate_condition(c.right), <<")">>>>)
      [] c.node = "Between" -> Cat(<<c.column, <<" ","B","E","T","W","E","E","N"," ">>, c.low, <<" ","A","N","D"," ">>, c.high>>)
      [] c.node = "In" -> Cat(<<c.column, <<" ","I","N"," ","(">>, Join(c.values, <<","," ">>), <<")">>>>)
      [] c.node = "Like" -> Cat(<<c.column, <<" ","L","I","K","E"," ","'">>, c.pattern, <<"'">>>>)

\* generate_where
generate_where(w) == <<"W","H","E","R","E"," ">> \o generate_condition(w.left)

\* the column list or the aggregate call of a SELECT
SelectList(n) ==
    CASE n.func.node = "CountFunc" ->
            Cat(<<<<"C","O","U","N","T","(">>, IF n.func.column # <<>> THEN n.func.column ELSE <<"*">>, <<")">>>>)
      [] n.func.node = "SumFunc" ->
            Cat(<<<<"S","U","M","(">>, IF n.func.column # <<>> THEN n.func.column ELSE <<"*">>, <<")">>>>)
      [] n.func.node = "None" -> Join(n.columns, <<","," ">>)

\* ast_to_sql of parser.py
legacy_ast_to_sql(n) ==
    CASE n.node = "dict" -> <<"-","-"," ","E","r","r","o","r",":"," ">> \o n.error
      [] n.node = "Select" ->
            Strip(Cat(<<<<"S","E","L","E","C","T"," ">>, IF n.distinct THEN <<"D","I","S","T","I","N","C","T"," ">> ELSE <<>>,
                        SelectList(n), <<" ","F","R","O","M"," ">>, n.table,
                        IF n.where.node # "None" THEN <<" ">> \o generate_where(n.where) ELSE <<>>,
                        IF n.group.node # "None" THEN <<" ","G","R","O","U","P"," ","B","Y"," ">> \o n.group.column ELSE <<>>,
                        IF n.order.node # "None"
                        THEN Cat(<<<<" ","O","R","D","E","R"," ","B","Y"," ">>, n.order.column, <<" ">>, n.order.direction>>)
                        ELSE <<>> >>))
      [] n.node = "Insert" ->
            Cat(<<<<"I","N","S","E","R","T"," ","I","N","T","O"," ">>, n.table, <<" ","V","A","L","U","E","S"," ","(">>, Join(n.values, <<","," ">>), <<")">>>>)
      [] n.node = "Update" ->
            Cat(<<<<"U","P","D","A","T","E"," ">>, n.table, <<" ","S","E","T"," ">>, n.col_set, <<" ","="," ">>, n.val_set,
                  <<" ","W","H","E","R","E"," ">>, n.cond_col, <<" ","="," ">>, n.cond_val>>)
      [] n.node = "Delete" ->
            Cat(<<<<"D","E","L","E","T","E"," ","F","R","O","M"," ">>, n.table, <<" ","W","H","E","R","E"," ">>, n.column, <<" ">>, n.op, <<" ">>, n.value>>)
      [] n.node = "DropColumn" ->
            Cat(<<<<"A","L","T","E","R"," ","T","A","B","L","E"," ">>, n.table, <<" ">>, DropParts(n.columns)>>)

\* ast_to_dict of parser.py
RECURSIVE legacy_ast_to_dict(_)
legacy_ast_to_dict(n) ==
    CASE n.node = "None" -> NoNode
      [] n.node = "dict" -> [error |-> n.error]
      [] n.node = "Select" ->
            [type |-> "Select", columns |-> n.columns, table |-> n.table,
             where |-> legacy_ast_to_dict(n.where), order |-> legacy_ast_to_dict(n.order),
             group |-> legacy_ast_to_dict(n.group), func |-> legacy_ast_to_dict(n.func),
             distinct |-> n.distinct]
      [] n.node = "Where" -> [type |-> "Where", expr |-> legacy_ast_to_dict(n.left)]
      [] n.node = "Condition" ->
            [type |-> "Condition", col |-> n.column, op |-> n.op, value |-> n.value]
      [] n.node = "And" ->
            [type |-> "AND", left |-> legacy_ast_to_dict(n.left),
             right |-> legacy_ast_to_dict(n.right)]
      [] n.node = "Or" ->
            [type |-> "OR", left |-> legacy_ast_to_dict(n.left),
             right |-> legacy_ast_to_dict(n.right)]
      [] n.node = "Between" ->
            [type |-> "Between", column |-> n.column, low |-> n.low, high |-> n.high]
      [] n.node = "In" -> [type |-> "IN", column |-> n.column, values |-> n.values]
      [] n.node = "Like" -> [type |-> "LIKE", column |-> n.column, pattern |-> n.pattern]
      [] n.node = "Order" -> [type |-> "Order", column |-> n.column, direction |-> n.direction]
      [] n.node = "Group" -> [type |-> "Group", column |-> n.column]
      [] n.node = "Insert" -> [type |-> "Insert", table |-> n.table, values |-> n.values]
      [] n.node = "Update" ->
            [type |-> "Update", table |-> n.table, set_col |-> n.col_set, set_val |-> n.val_set,
             cond_col |-> n.cond_col, cond_val |-> n.cond_val]
      [] n.node = "Delete" ->
            [type |-> "Delete", table |-> n.table, column |-> n.column, op |-> n.op,
             value |-> n.value]
      [] n.node = "DropColumn" -> [type |-> "DropColumn", table |-> n.table, columns |-> n.columns]
      [] n.node = "CountFunc" -> [type |-> "CountFunc", column |-> n.column]
      [] n.node = "SumFunc" -> [type |-> "SumFunc", column |-> n.column]


\* the imports of the new pipeline at the top of parser.py succeed
HAS_NEW_PIPELINE == TRUE

\* an "except ParseError": the other exceptions of the pipeline pass through
CaughtParseErrorOnly(e) == e = "ParseError"

\* "except Exception": every exception that process raises is caught
Caught(e) == TRUE

\* the dict returned when the new pipeline succeeds; r is what process returned
NewResult(t, r) ==
    [input |-> t, method |-> "Lexer -> Parser -> AST -> SQL", tokens |-> r.tokens,
     ast |-> r.ast, sql |-> r.sql,
     explanation |-> <<"S","u","c","c","e","s","s","f","u","l","l","y"," ","p","a","r","s","e","d"," ","u","s","i","n","g"," ","L","e","x","e","r","-","P","a","r","s","e","r"," ","p","i","p","e","l","i","n","e">>]

\* the explanation of the legacy path
Explanation(t, s) ==
    IF Len(s) >= 2 /\ SubSeq(s, 1, 2) = <<"-","-">> THEN <<"C","o","u","l","d"," ","n","o","t"," ","p","a","r","s","e",":"," ">> \o t
    ELSE <<"C","o","n","v","e","r","t","e","d"," ","n","a","t","u","r","a","l"," ","l","a","n","g","u","a","g","e"," ","t","o"," ","S","Q","L"," ","(","l","e","g","a","c","y"," ","r","e","g","e","x"," ","m","e","t","h","o","d",")">>

\* the dict returned by the legacy path, from the DSL text and the AST of the steps
LegacyDict(t, dsl, a) ==
    [input |-> t, method |-> "English -> DSL -> AST -> SQL (regex)", dsl |-> dsl,
     ast |-> legacy_ast_to_dict(a), sql |-> legacy_ast_to_sql(a),
     explanation |-> Explanation(t, legacy_ast_to_sql(a))]
LegacyResult(t) == LegacyDict(t, english_to_dsl(t), parse_dsl(english_to_dsl(t)))

-----------------------------------------------------------------------------
(* Inputs of the runs                                                      *)

MaxLexLen == 3      \* longest text of the character-level inputs
MaxConds  == 3      \* most conditions in a WHERE chain
MaxNumLen == 4      \* longest number lexeme

\* the test cases of test_pipeline and test_lexer, and the scenarios they stand for
Samples == {
    <<"s","e","l","e","c","t"," ","a","l","l"," ","f","r","o","m"," ","u","s","e","r","s">>,
    <<"s","h","o","w"," ","a","l","l"," ","p","r","o","d","u","c","t","s"," ","f","r","o","m"," ","i","n","v","e","n","t","o","r","y">>,
    <<"s","e","l","e","c","t"," ","d","i","s","t","i","n","c","t"," ","c","i","t","y"," ","f","r","o","m"," ","c","u","s","t","o","m","e","r","s">>,
    <<"s","h","o","w"," ","a","l","l"," ","p","r","o","d","u","c","t","s"," ","w","h","e","r","e"," ","p","r","i","c","e"," ",">"," ","1","0","0">>,
    <<"s","e","l","e","c","t"," ","u","s","e","r","s"," ","w","h","e","r","e"," ","a","g","e"," ","g","r","e","a","t","e","r"," ","t","h","a","n"," ","2","0"," ","a","n","d"," ","s","a","l","a","r","y"," ","l","e","s","s"," ","t","h","a","n"," ","5","0","0","0">>,
    <<"s","e","l","e","c","t"," ","u","s","e","r","s"," ","w","h","e","r","e"," ","a","g","e"," ",">"," ","2","0"," ","a","n","d"," ","s","a","l","a","r","y"," ","<"," ","5","0","0","0">>,
    <<"s","e","l","e","c","t"," ","p","r","o","d","u","c","t","s"," ","w","h","e","r","e"," ","p","r","i","c","e"," ","b","e","t","w","e","e","n"," ","1","0"," ","a","n","d"," ","1","0","0">>,
    <<"s","e","l","e","c","t"," ","a","l","l"," ","p","r","o","d","u","c","t","s"," ","o","r","d","e","r"," ","b","y"," ","p","r","i","c","e"," ","d","e","s","c">>,
    <<"c","o","u","n","t"," ","u","s","e","r","s">>,
    <<"h","o","w"," ","m","a","n","y"," ","p","r","o","d","u","c","t","s">>,
    <<"c","o","u","n","t"," ","u","s","e","r","s"," ","w","h","e","r","e"," ","a","g","e"," ","g","r","e","a","t","e","r"," ","t","h","a","n"," ","2","0">>,
    <<"i","n","s","e","r","t"," ","i","n","t","o"," ","u","s","e","r","s"," ","v","a","l","u","e","s"," ","1",","," ","'","J","o","h","n","'",","," ","2","5">>,
    <<"u","p","d","a","t","e"," ","u","s","e","r","s"," ","s","e","t"," ","a","g","e"," ","="," ","2","5"," ","w","h","e","r","e"," ","i","d"," ","="," ","1","0">>,
    <<"d","e","l","e","t","e"," ","f","r","o","m"," ","u","s","e","r","s"," ","w","h","e","r","e"," ","i","d"," ","="," ","5">>,
    <<"f","i","n","d"," ","u","s","e","r","s"," ","w","h","e","r","e"," ","n","a","m","e"," ","c","o","n","t","a","i","n","s"," ","'","a","n","'">>,
    <<"d","e","l","e","t","e"," ","c","o","l","u","m","n"," ","a","g","e"," ","f","r","o","m"," ","u","s","e","r","s">>,
    <<"a","l","t","e","r"," ","t","a","b","l","e"," ","u","s","e","r","s"," ","d","r","o","p"," ","c","o","l","u","m","n"," ","a","g","e">> }

\* every text over LexAlphabet of at most n characters
LexAlphabet == {"a", "1", " ", "'", ".", ">", "<", "=", "!"}

RECURSIVE TextsOfLen(_, _)
TextsOfLen(alphabet, n) ==
    IF n = 0 THEN {<<>>}
    ELSE {Append(t, c) : t \in TextsOfLen(alphabet, n - 1), c \in alphabet}

LexInputs == UNION {TextsOfLen(LexAlphabet, n) : n \in 0..MaxLexLen}

\* number lexemes: a digit, then digits and dots
NumberLexemes ==
    UNION {{<<d>> \o t : d \in {"0", "1"}, t \in TextsOfLen({"0", "1", "."}, n)}
           : n \in 0..(MaxNumLen - 1)}

NumberInputs == {<<"s","e","l","e","c","t"," ","t"," ","w","h","e","r","e"," ","x"," ","="," ">> \o n : n \in NumberLexemes}

\* WHERE chains of up to MaxConds conditions joined by and / or
Conds == {<<"a"," ","="," ","1">>, <<"b"," ","b","e","t","w","e","e","n"," ","1"," ","a","n","d"," ","2">>, <<"c"," ","i","n"," ","(","1",","," ","'","x","'",")">>}
Conns == {<<" ","a","n","d"," ">>, <<" ","o","r"," ">>}

RECURSIVE Chains(_)
Chains(n) ==
    IF n = 1 THEN Conds
    ELSE {c \o k \o d : c \in Chains(n - 1), k \in Conns, d \in Conds}

ChainInputs == {<<"s","e","l","e","c","t"," ","t"," ","w","h","e","r","e"," ">> \o c : c \in UNION {Chains(n) : n \in 1..MaxConds}}

\* a query written with operator phrase i, and the same query normalized
PhraseContexts == {
    <<<<"x"," ">>, <<" ","5">>>>,
    <<<<"s","e","l","e","c","t"," ","t"," ","w","h","e","r","e"," ","x"," ">>, <<" ","5">>>>,
    <<<<"x"," ">>, <<>>>> }

PhraseQuery(ctx, i)     == ctx[1] \o OPERATOR_PHRASES[i][1] \o ctx[2]
NormalizedQuery(ctx, i) == ctx[1] \o OPERATOR_PHRASES[i][2] \o ctx[2]

PhraseInputs ==
    {PhraseQuery(ctx, i) : ctx \in PhraseContexts, i \in 1..Len(OPERATOR_PHRASES)}
    \cup {NormalizedQuery(ctx, i) : ctx \in PhraseContexts, i \in 1..Len(OPERATOR_PHRASES)}

\* statement heads and clause tails of the grammar, combined freely
Heads == {
    <<"s","e","l","e","c","t">>, <<"s","e","l","e","c","t"," ","t">>, <<"s","e","l","e","c","t"," ","a"," ","f","r","o","m"," ","t">>, <<"s","e","l","e","c","t"," ","a",","," ","b"," ","f","r","o","m"," ","t">>,
    <<"s","e","l","e","c","t"," ",","," ","a"," ","f","r","o","m"," ","t">>, <<"s","e","l","e","c","t"," ","a",","," ",","," ","b"," ","f","r","o","m"," ","t">>, <<"s","e","l","e","c","t"," ","f","r","o","m"," ","t">>,
    <<"s","e","l","e","c","t"," ","a","l","l"," ","t">>, <<"s","e","l","e","c","t"," ","*"," ","f","r","o","m"," ","t">>, <<"s","e","l","e","c","t"," ","a","l","l">>, <<"s","e","l","e","c","t"," ","d","i","s","t","i","n","c","t"," ","a"," ","f","r","o","m"," ","t">>,
    <<"s","e","l","e","c","t"," ","a"," ","b">>, <<"s","e","l","e","c","t"," ","a"," ","=">>,
    <<"c","o","u","n","t">>, <<"c","o","u","n","t"," ","t">>, <<"h","o","w"," ","m","a","n","y"," ","t">>, <<"c","o","u","n","t"," ","x"," ","f","r","o","m"," ","t">>, <<"c","o","u","n","t"," ","f","r","o","m">>,
    <<"s","u","m">>, <<"s","u","m"," ","x"," ","f","r","o","m"," ","t">>, <<"t","o","t","a","l"," ","x">>,
    <<"f","i","n","d">>, <<"f","i","n","d"," ","t">>,
    <<"i","n","s","e","r","t"," ","i","n","t","o"," ","t"," ","v","a","l","u","e","s"," ","1",","," ","'","J","o","'",","," ","x">>, <<"i","n","s","e","r","t"," ","i","n","t","o"," ","t"," ","v","a","l","u","e","s"," ","(","1",".","5",","," ","2",")">>,
    <<"i","n","s","e","r","t"," ","t"," ","v","a","l","u","e","s"," ","1">>, <<"i","n","s","e","r","t"," ","i","n","t","o"," ","t"," ","1">>,
    <<"u","p","d","a","t","e"," ","t"," ","s","e","t"," ","a"," ","="," ","'","B","'">>, <<"u","p","d","a","t","e"," ","t"," ","a"," ","="," ","1">>, <<"u","p","d","a","t","e"," ","t"," ","s","e","t"," ","a"," ","1">>,
    <<"d","e","l","e","t","e"," ","f","r","o","m"," ","t">>, <<"d","e","l","e","t","e"," ","t">>, <<"d","e","l","e","t","e">>,
    <<"d","e","l","e","t","e"," ","c","o","l","u","m","n"," ","a",","," ","b"," ","f","r","o","m"," ","t">>, <<"d","e","l","e","t","e"," ","c","o","l","u","m","n"," ","f","r","o","m"," ","t">>, <<"d","e","l","e","t","e"," ","c","o","l","u","m","n"," ","a"," ","t">>,
    <<"a","l","t","e","r"," ","t","a","b","l","e"," ","t"," ","d","r","o","p"," ","c","o","l","u","m","n"," ","a">>, <<"a","l","t","e","r"," ","t","a","b","l","e"," ","t"," ","d","r","o","p"," ","c","o","l","u","m","n">>,
    <<"a","l","t","e","r"," ","t"," ","d","r","o","p"," ","c","o","l","u","m","n"," ","a">>, <<"a","l","t","e","r"," ","t","a","b","l","e"," ","t"," ","c","o","l","u","m","n"," ","a">>, <<"a","l","t","e","r"," ","t","a","b","l","e"," ","t"," ","d","r","o","p"," ","a">> }

Tails == {
    <<>>, <<" ","w","h","e","r","e"," ","x"," ","="," ","1">>, <<" ","w","h","e","r","e"," ","x"," ","l","i","k","e"," ","'","a","%","'">>, <<" ","w","h","e","r","e"," ","x"," ","="," ","\"","a","'","b","\"">>,
    <<" ","w","h","e","r","e"," ","x"," ","b","e","t","w","e","e","n"," ","'","a","'"," ","a","n","d"," ","z">>, <<" ","w","h","e","r","e">>,
    <<" ","o","r","d","e","r"," ","b","y"," ","x"," ","d","e","s","c">>, <<" ","o","r","d","e","r"," ","b","y">>, <<" ","o","r","d","e","r"," ","x">>,
    <<" ","g","r","o","u","p"," ","b","y"," ","x">>, <<" ","g","r","o","u","p"," ","b","y">>, <<" ","g","r","o","u","p"," ","x">>,
    <<" ","w","h","e","r","e"," ","x"," ",">","="," ","1",".","5"," ","o","r","d","e","r"," ","b","y"," ","y"," ","a","s","c"," ","g","r","o","u","p"," ","b","y"," ","z">> }

HeadInputs == {h \o t : h \in Heads, t \in Tails}

\* SELECT ALL / SELECT * statements with and without FROM
SelectAllHeads == {<<"s","e","l","e","c","t"," ","a","l","l">>, <<"s","e","l","e","c","t"," ","*">>, <<"s","h","o","w"," ","a","l","l">>, <<"s","e","l","e","c","t"," ","d","i","s","t","i","n","c","t"," ","a","l","l">>, <<"s","e","l","e","c","t"," ","d","i","s","t","i","n","c","t"," ","*">>}

AfterAll == {
    <<>>, <<" ","t">>, <<" ","f","r","o","m"," ","t">>, <<" ","f","r","o","m">>, <<" ","5">>, <<" ","f","r","o","m"," ","5">>, <<" ","w","h","e","r","e"," ","x"," ","="," ","1">>,
    <<" ","t"," ","w","h","e","r","e"," ","x"," ","="," ","1">>, <<" ","f","r","o","m"," ","t"," ","w","h","e","r","e"," ","x"," ",">"," ","1"," ","o","r","d","e","r"," ","b","y"," ","y">>, <<" ","t"," ","o","r","d","e","r"," ","b","y"," ","x"," ","d","e","s","c">>,
    <<" ","t"," ","g","r","o","u","p"," ","b","y"," ","x">>, <<","," ","t">> }

SelectAllInputs == {h \o t : h \in SelectAllHeads, t \in AfterAll}

\* statements the parser accepts or rejects at a clause keyword
ClauseInputs == {
    <<"d","e","l","e","t","e"," ","u","s","e","r","s"," ","w","h","e","r","e"," ","i","d"," ","="," ","5">>, <<"d","e","l","e","t","e"," ","5">>, <<"d","e","l","e","t","e"," ","w","h","e","r","e"," ","i","d"," ","="," ","5">>,
    <<"s","e","l","e","c","t"," ","u","s","e","r","s">>, <<"s","e","l","e","c","t"," ","u","s","e","r","s"," ","o","r","d","e","r"," ","b","y"," ","x">>, <<"s","e","l","e","c","t"," ","u","s","e","r","s"," ","g","r","o","u","p"," ","b","y"," ","x">>,
    <<"s","e","l","e","c","t"," ","d","i","s","t","i","n","c","t"," ","u","s","e","r","s"," ","w","h","e","r","e"," ","x"," ","="," ","1">>,
    <<"s","e","l","e","c","t"," ","t"," ","w","h","e","r","e"," ","x"," ","="," ","1"," ","o","r","d","e","r"," ","x">>, <<"s","e","l","e","c","t"," ","t"," ","w","h","e","r","e"," ","x"," ","="," ","1"," ","o","r","d","e","r"," ","b","y"," ","y"," ","g","r","o","u","p"," ","z">>,
    <<"s","e","l","e","c","t"," ","t"," ","o","r","d","e","r"," ","b","y"," ","g","r","o","u","p"," ","b","y">>, <<"s","e","l","e","c","t"," ","t"," ","o","r","d","e","r"," ","b","y"," ","y"," ","g","r","o","u","p"," ","b","y"," ","5">>,
    <<"d","e","l","e","t","e"," ","c","o","l","u","m","n"," ","a",","," ","b"," ","t">>, <<"d","e","l","e","t","e"," ","c","o","l","u","m","n"," ","a",","," ","f","r","o","m"," ","t">>, <<"i","n","s","e","r","t"," ","i","n","t","o"," ","t"," ","v","a","l","u","e","s">>,
    <<"u","p","d","a","t","e"," ","t"," ","s","e","t"," ","="," ","1">>, <<"a","l","t","e","r"," ","t","a","b","l","e"," ","d","r","o","p"," ","c","o","l","u","m","n"," ","a">> }

\* values as they can be written in a statement: numbers, quoted strings and
\* bare identifiers
ValueLexemes == {
    <<"5">>, <<"1",".","5","0">>, <<"0","0","7">>, <<"x">>, <<"'","5","'">>, <<"'","-","5","'">>, <<"'","1",".","5","'">>, <<"'","1","e","5","'">>, <<"'","n","a","n","'">>,
    <<"'","i","n","f","'">>, <<"'","+","5","'">>, <<"'",".","5","'">>, <<"'","5",".","'">>, <<"'","1","_","0","'">>, <<"'"," ","5","'">>, <<"'","'">>, <<"'","-","'">>,
    <<"'","a","b","c","'">>, <<"'","5","a","'">>, <<"'","-","-","5","'">>, <<"'","1","e","'">>, <<"'",".","'">>, <<"'","_","1","'">>, <<"'","a"," ","b","'">> }

ValueInputs ==
    {<<"i","n","s","e","r","t"," ","i","n","t","o"," ","t"," ","v","a","l","u","e","s"," ","1",","," ">> \o v : v \in ValueLexemes}
    \cup {<<"u","p","d","a","t","e"," ","t"," ","s","e","t"," ","a"," ","="," ">> \o v : v \in ValueLexemes}
    \cup {<<"s","e","l","e","c","t"," ","t"," ","w","h","e","r","e"," ","a"," ",">","="," ">> \o v : v \in ValueLexemes}
    \cup {<<"s","e","l","e","c","t"," ","t"," ","w","h","e","r","e"," ","a"," ","i","n"," ","(">> \o v \o <<","," ","'","b","'",","," ","2",")">> : v \in ValueLexemes}

\* LIKE / CONTAINS conditions
LikePatterns == {<<"'","a","n","'">>, <<"'","%","'">>, <<"'","a","%","'">>, <<"'","%","a","'">>, <<"'","a","%","b","'">>, <<"'","'">>, <<"5">>, <<"1",".","5","0">>, <<"x">>, <<"'","A","_","b","'">>}

LikeInputs ==
    {<<"f","i","n","d"," ","t"," ","w","h","e","r","e"," ","x"," ","l","i","k","e"," ">> \o p : p \in LikePatterns}
    \cup {<<"s","e","l","e","c","t"," ","a"," ","f","r","o","m"," ","t"," ","w","h","e","r","e"," ","x"," ","c","o","n","t","a","i","n","s"," ">> \o p : p \in LikePatterns}

\* texts with letters, digits and whitespace outside ASCII, and numbers that
\* float() rounds or that str() writes with an exponent
WideInputs == {
    <<"s","e","l","e","c","t"," ","c","a","f","é"," ","f","r","o","m"," ","t"," ","w","h","e","r","e"," ","é"," ","="," ","'","É","'">>,
    <<"S","E","L","E","C","T"," ","T"," ","W","H","E","R","E"," ","Ü"," ","="," ","5">>,
    <<"s","e","l","e","c","t"," ","t"," ","w","h","e","r","e"," ","x"," ","="," ","²">>,
    <<"s","e","l","e","c","t"," ","t"," ","w","h","e","r","e"," ","x"," ","="," ","1","²">>,
    <<"s","e","l","e","c","t"," ","t"," ","w","h","e","r","e"," ","x"," ","="," ","1",".","²">>,
    <<"s","e","l","e","c","t","","t","","w","h","e","r","e"," ","x","","=","\f","","1">>,
    <<"","s","e","l","e","c","t"," ","t","">>,
    <<"s","e","l","e","c","t"," ","t"," ","w","h","e","r","e"," ","x"," ","="," ","0",".","0","0","0","0","1">>,
    <<"s","e","l","e","c","t"," ","t"," ","w","h","e","r","e"," ","x"," ","="," ","0",".","0","0","0","0","1","2">>,
    <<"s","e","l","e","c","t"," ","t"," ","w","h","e","r","e"," ","x"," ","="," ","0",".","0","0","0","1">>,
    <<"s","e","l","e","c","t"," ","t"," ","w","h","e","r","e"," ","x"," ","="," ","1","2","3","4","5","6","7","8","9","0","1","2","3","4","5","6","7",".","0">>,
    <<"s","e","l","e","c","t"," ","t"," ","w","h","e","r","e"," ","x"," ","="," ","1","2","3","4","5","6","7","8","9","0","1","2","3","4","5","6",".","0">>,
    <<"s","e","l","e","c","t"," ","t"," ","w","h","e","r","e"," ","x"," ","="," ","0",".","1","2","3","4","5","6","7","8","9","0","1","2","3","4","5","6","7","8","9">>,
    <<"s","e","l","e","c","t"," ","t"," ","w","h","e","r","e"," ","x"," ","="," ","9","0","0","7","1","9","9","2","5","4","7","4","0","9","9","3",".","0">>,
    <<"s","e","l","e","c","t"," ","t"," ","w","h","e","r","e"," ","x"," ","="," ","1","5","0","0","0","0","0","0","0","0","0","0","0","0","0","0",".","2","5">>,
    <<"s","e","l","e","c","t"," ","t"," ","w","h","e","r","e"," ","x"," ","b","e","t","w","e","e","n"," ","0",".","0","0","0","0","1"," ","a","n","d"," ","1","0","0","0","0","0","0","0","0","0","0","0","0","0","0","0","0",".","0">>,
    <<"i","n","s","e","r","t"," ","i","n","t","o"," ","t"," ","v","a","l","u","e","s"," ","'","²","'",","," ","'","1","²","'",","," ","'","-","²","'",","," ","'","¼","'",","," ","0",".","3","0","0","0","0","0","0","0","0","0","0","0","0","0","0","0","4">>,
    <<"x","¼"," ","¼"," ","ª","_","µ"," ","ß","1">>,
    <<"u","p","d","a","t","e"," ","t"," ","s","e","t"," ","ñ"," ","="," ","'","Ñ","'"," ","w","h","e","r","e"," ","ÿ"," ","="," ","0","0",".","1","0">> }

Inputs == Samples \cup LexInputs \cup NumberInputs \cup ChainInputs
          \cup PhraseInputs \cup HeadInputs \cup SelectAllInputs \cup ClauseInputs
          \cup ValueInputs \cup LikeInputs \cup WideInputs

-----------------------------------------------------------------------------
(* The run: Lexer(text).tokenize(), Parser(tokens).parse(), ast_to_sql(ast), *)
(* as NLToSQLPipeline.process chains them                                  *)

\* Lexer.__init__ on an input text
Init ==
    /\ text \in Inputs
    /\ ltext = Preprocess(text)
    /\ pos = 0
    /\ tokens = <<>>
    /\ phase = "scan"
    /\ ast = NoNode
    /\ sql = <<>>
    /\ error = ""
    /\ pipelines = [i \in Instances |-> NewPipeline]
    /\ calls = [c \in Callers |-> NotCalling]
    /\ shared = FALSE
    /\ ret = NoCall

\* the iteration of the scan loop that takes the number branch
ScanNumber ==
    /\ phase = "scan"
    /\ pos < Len(ltext)
    /\ SkipWhitespace(ltext, pos) < Len(ltext)
    /\ CharClass(CharAt(ltext, SkipWhitespace(ltext, pos))) = "number"
    /\ \E r \in {ReadNumber(ltext, SkipWhitespace(ltext, pos))} :
           /\ tokens' = AppendToken(tokens, r.tok)
           /\ pos' = r.pos
    /\ UNCHANGED <<text, ltext, phase, ast, sql, error>>
    /\ UNCHANGED callVars

\* the iteration of the scan loop that takes the string branch
ScanString ==
    /\ phase = "scan"
    /\ pos < Len(ltext)
    /\ SkipWhitespace(ltext, pos) < Len(ltext)
    /\ CharClass(CharAt(ltext, SkipWhitespace(ltext, pos))) = "string"
    /\ \E r \in {ReadString(ltext, SkipWhitespace(ltext, pos))} :
           /\ tokens' = AppendToken(tokens, r.tok)
           /\ pos' = r.pos
    /\ UNCHANGED <<text, ltext, phase, ast, sql, error>>
    /\ UNCHANGED callVars

\* the iteration of the scan loop that takes the word branch
ScanWord ==
    /\ phase = "scan"
    /\ pos < Len(ltext)
    /\ SkipWhitespace(ltext, pos) < Len(ltext)
    /\ CharClass(CharAt(ltext, SkipWhitespace(ltext, pos))) = "word"
    /\ \E r \in {ReadWord(ltext, SkipWhitespace(ltext, pos))} :
           /\ tokens' = AppendToken(tokens, r.tok)
           /\ pos' = r.pos
    /\ UNCHANGED <<text, ltext, phase, ast, sql, error>>
    /\ UNCHANGED callVars

\* the iteration of the scan loop that takes the operator branch
ScanOperator ==
    /\ phase = "scan"
    /\ pos < Len(ltext)
    /\ SkipWhitespace(ltext, pos) < Len(ltext)
    /\ CharClass(CharAt(ltext, SkipWhitespace(ltext, pos))) = "operator"
    /\ \E r \in {ReadOperator(ltext, SkipWhitespace(ltext, pos))} :
           /\ tokens' = AppendToken(tokens, r.tok)
           /\ pos' = r.pos
    /\ UNCHANGED <<text, ltext, phase, ast, sql, error>>
    /\ UNCHANGED callVars

\* the iteration that finds only whitespace left: break, then the EOF token
ScanBlank ==
    /\ phase = "scan"
    /\ pos < Len(ltext)
    /\ SkipWhitespace(ltext, pos) >= Len(ltext)
    /\ pos' = SkipWhitespace(ltext, pos)
    /\ tokens' = Append(tokens, EofToken(pos'))
    /\ phase' = "lexed"
    /\ UNCHANGED <<text, ltext, ast, sql, error>>
    /\ UNCHANGED callVars

\* the loop condition fails: the EOF token is appended and tokenize returns
ScanEnd ==
    /\ phase = "scan"
    /\ pos >= Len(ltext)
    /\ tokens' = Append(tokens, EofToken(pos))
    /\ phase' = "lexed"
    /\ UNCHANGED <<text, ltext, pos, ast, sql, error>>
    /\ UNCHANGED callVars

\* stage 2 of process: Parser(tokens).parse()
ParseTokens ==
    /\ phase = "lexed"
    /\ \E r \in {Parse(tokens)} :
           /\ phase' = IF r.err = "" THEN "parsed" ELSE "error"
           /\ ast' = r.val
           /\ error' = r.err
    /\ UNCHANGED <<text, ltext, pos, tokens, sql>>
    /\ UNCHANGED callVars

\* stage 3 of process: ast_to_sql(ast)
GenerateSql ==
    /\ phase = "parsed"
    /\ \E r \in {ast_to_sql(ast)} :
           /\ phase' = IF r.err = "" THEN "done" ELSE "error"
           /\ sql' = r.val
           /\ error' = r.err
    /\ UNCHANGED <<text, ltext, pos, tokens, ast>>
    /\ UNCHANGED callVars

Next ==
    \/ ScanNumber
    \/ ScanString
    \/ ScanWord
    \/ ScanOperator
    \/ ScanBlank
    \/ ScanEnd
    \/ ParseTokens
    \/ GenerateSql

Spec == Init /\ [][Next]_vars

-----------------------------------------------------------------------------
(* Single-threaded use of one orchestrator: any sequence of tokenize, parse, *)
(* generate_sql and process calls on instance 1, each call atomic           *)

\* the texts of the calls: two that succeed, and one for each way to fail
PipeTexts == {
    <<"s","e","l","e","c","t"," ","a"," ","f","r","o","m"," ","t">>,
    <<"s","h","o","w"," ","u","s","e","r","s">>,
    <<"s","e","l","e","c","t"," ","a","l","l">>,
    <<"s","e","l","e","c","t"," ","f","r","o","m"," ","t">>,
    <<"s","e","l","e","c","t"," ","t"," ","w","h","e","r","e"," ","x"," ","="," ","1",".","2",".","3">>,
    <<>>
}

\* the texts whose tokens, or which themselves, are passed to parse
ParseTexts == {
    <<"s","h","o","w"," ","u","s","e","r","s">>,
    <<"s","e","l","e","c","t"," ","f","r","o","m"," ","t">>,
    <<>>
}

\* the tokens argument of parse: None, [], or a token list
TokenArgs == {NoArg, Arg(<<>>)} \cup {Arg(Tokenize(t)) : t \in ParseTexts \ {<<>>}}

\* the text argument of parse: None, or a text ("" included)
TextArgs == {NoArg} \cup {Arg(t) : t \in ParseTexts}

\* the ast argument of generate_sql: None, or an AST that a parse returned
\* an AlterTable node whose action is not DROP COLUMN: the parser builds none,
\* a caller of generate_sql can
AddColumn ==
    AlterTableNode(PyStr(<<"t">>), <<"A","D","D"," ","C","O","L","U","M","N">>, <<PyStr(<<"c">>)>>)

AstArgs ==
    {NoNode, AddColumn} \cup {r.val : r \in {x \in {Parse(Tokenize(t)) : t \in PipeTexts} : x.err = ""}}

PipelineInit ==
    /\ text = <<>>
    /\ ltext = <<>>
    /\ pos = 0
    /\ tokens = <<>>
    /\ phase = "calls"
    /\ ast = NoNode
    /\ sql = <<>>
    /\ error = ""
    /\ pipelines = [i \in Instances |-> NewPipeline]
    /\ calls = [c \in Callers |-> NotCalling]
    /\ shared = FALSE
    /\ ret = NoCall

\* pipeline.tokenize(t)
CallTokenize ==
    /\ \E t \in PipeTexts : \E r \in {Pipeline_tokenize(pipelines[1], t)} :
           /\ pipelines' = [pipelines EXCEPT ![1] = r.self]
           /\ ret' = Outcome("tokenize", t, pipelines[1], r)
    /\ UNCHANGED <<runVars, calls, shared>>

\* pipeline.parse(tokens, text)
CallParse ==
    /\ \E toks \in TokenArgs, txt \in TextArgs :
       \E r \in {Pipeline_parse(pipelines[1], toks, txt)} :
           /\ pipelines' = [pipelines EXCEPT ![1] = r.self]
           /\ ret' = Outcome("parse", [tokens |-> toks, text |-> txt], pipelines[1], r)
    /\ UNCHANGED <<runVars, calls, shared>>

\* pipeline.generate_sql(ast)
CallGenerateSql ==
    /\ \E a \in AstArgs : \E r \in {Pipeline_generate_sql(pipelines[1], a)} :
           /\ pipelines' = [pipelines EXCEPT ![1] = r.self]
           /\ ret' = Outcome("generate_sql", a, pipelines[1], r)
    /\ UNCHANGED <<runVars, calls, shared>>

\* pipeline.process(t)
CallProcess ==
    /\ \E t \in PipeTexts : \E r \in {Pipeline_process(pipelines[1], t)} :
           /\ pipelines' = [pipelines EXCEPT ![1] = r.self]
           /\ ret' = Outcome("process", t, pipelines[1], r)
    /\ UNCHANGED <<runVars, calls, shared>>

\* pipeline.quick_parse(t)
CallQuickParse ==
    /\ \E t \in PipeTexts : \E r \in {Pipeline_quick_parse(pipelines[1], t)} :
           /\ pipelines' = [pipelines EXCEPT ![1] = r.self]
           /\ ret' = Outcome("quick_parse", t, pipelines[1], r)
    /\ UNCHANGED <<runVars, calls, shared>>

\* the texts of the calls of the module's functions: one that succeeds, one that fails
FunctionTexts == {
    <<"s","h","o","w"," ","u","s","e","r","s">>,
    <<"s","e","l","e","c","t"," ","a","l","l">>
}

\* nl_to_sql(t): the instance of the caller is not touched
CallNlToSql ==
    /\ \E t \in FunctionTexts : \E r \in {nl_to_sql(t)} :
           ret' = Outcome("nl_to_sql", t, pipelines[1], r)
    /\ UNCHANGED <<runVars, pipelines, calls, shared>>

\* process_text(t): the instance of the caller is not touched
CallProcessText ==
    /\ \E t \in FunctionTexts : \E r \in {process_text(t)} :
           ret' = Outcome("process_text", t, pipelines[1], r)
    /\ UNCHANGED <<runVars, pipelines, calls, shared>>

PipelineNext ==
    \/ CallTokenize
    \/ CallParse
    \/ CallGenerateSql
    \/ CallProcess
    \/ CallQuickParse
    \/ CallNlToSql
    \/ CallProcessText

PipelineSpec == PipelineInit /\ [][PipelineNext]_vars

-----------------------------------------------------------------------------
(* Concurrent use: every caller runs one process call; the callers share   *)
(* instance 1 or have one instance each.  A method stores its result in a  *)
(* last_* field and returns by reading the field back: the store and the   *)
(* read are two steps, and steps of the other caller may come between.     *)

\* every caller on the one shared instance
SharedInstanceOf(c) == 1

\* the instance that caller c calls process on
InstanceOf(c) == IF shared THEN 1 ELSE c

\* the texts of the concurrent calls
ConcTexts == {
    <<"s","e","l","e","c","t"," ","a"," ","f","r","o","m"," ","t">>,
    <<"s","h","o","w"," ","u","s","e","r","s">>,
    <<"s","e","l","e","c","t"," ","a","l","l">>,
    <<"s","e","l","e","c","t"," ","f","r","o","m"," ","t">>
}

\* caller c entering process(t)
Calling(t) == [NotCalling EXCEPT !.pc = "start", !.input = t]

ConcurrentInit ==
    /\ text = <<>>
    /\ ltext = <<>>
    /\ pos = 0
    /\ tokens = <<>>
    /\ phase = "calls"
    /\ ast = NoNode
    /\ sql = <<>>
    /\ error = ""
    /\ pipelines = [i \in Instances |-> NewPipeline]
    /\ shared \in BOOLEAN
    /\ calls \in [Callers -> {Calling(t) : t \in ConcTexts}]
    /\ ret = NoCall

\* tokenize: "self.last_tokens = lexer.tokenize()"
TokenizeStore(c) ==
    /\ calls[c].pc = "start"
    /\ pipelines' = [pipelines EXCEPT ![InstanceOf(c)].last_tokens = Tokenize(calls[c].input)]
    /\ calls' = [calls EXCEPT ![c].pc = "tokenized"]
    /\ UNCHANGED <<runVars, shared, ret>>

\* tokenize: "return self.last_tokens", and process: "tokens = self.tokenize(text)"
TokenizeReturn(c) ==
    /\ calls[c].pc = "tokenized"
    /\ calls' = [calls EXCEPT ![c].pc = "parse",
                              ![c].tokens = pipelines[InstanceOf(c)].last_tokens]
    /\ UNCHANGED <<runVars, pipelines, shared, ret>>

\* parse(tokens): "parser = Parser(tokens); self.last_ast = parser.parse()"
ParseStore(c) ==
    /\ calls[c].pc = "parse"
    /\ \E r \in {Pipeline_parse(pipelines[InstanceOf(c)], Arg(calls[c].tokens), NoArg)} :
           /\ pipelines' = [pipelines EXCEPT ![InstanceOf(c)] = r.self]
           /\ calls' = [calls EXCEPT ![c].pc = IF r.err = "" THEN "parsed" ELSE "raised",
                                     ![c].err = r.err]
    /\ UNCHANGED <<runVars, shared, ret>>

\* parse: "return self.last_ast", and process: "ast = self.parse(tokens)"
ParseReturn(c) ==
    /\ calls[c].pc = "parsed"
    /\ calls' = [calls EXCEPT ![c].pc = "generate",
                              ![c].ast = pipelines[InstanceOf(c)].last_ast]
    /\ UNCHANGED <<runVars, pipelines, shared, ret>>

\* generate_sql(ast): "if ast is None: ast = self.last_ast", then
\* "self.last_sql = ast_to_sql(ast)"
GenerateStore(c) ==
    /\ calls[c].pc = "generate"
    /\ \E r \in {Pipeline_generate_sql(pipelines[InstanceOf(c)], calls[c].ast)} :
           /\ pipelines' = [pipelines EXCEPT ![InstanceOf(c)] = r.self]
           /\ calls' = [calls EXCEPT ![c].pc = IF r.err = "" THEN "generated" ELSE "raised",
                                     ![c].err = r.err]
    /\ UNCHANGED <<runVars, shared, ret>>

\* generate_sql: "return self.last_sql", and process: "sql = self.generate_sql(ast)"
GenerateReturn(c) ==
    /\ calls[c].pc = "generated"
    /\ calls' = [calls EXCEPT ![c].pc = "build",
                              ![c].sql = pipelines[InstanceOf(c)].last_sql]
    /\ UNCHANGED <<runVars, pipelines, shared, ret>>

\* process builds the dict from its locals and returns it
ProcessReturn(c) ==
    /\ calls[c].pc = "build"
    /\ calls' = [calls EXCEPT ![c].pc = "returned",
                              ![c].val = ProcessResult(calls[c].input, calls[c].tokens,
                                                       calls[c].ast, calls[c].sql)]
    /\ UNCHANGED <<runVars, pipelines, shared, ret>>

ConcurrentNext ==
    \/ \E c \in Callers : TokenizeStore(c)
    \/ \E c \in Callers : TokenizeReturn(c)
    \/ \E c \in Callers : ParseStore(c)
    \/ \E c \in Callers : ParseReturn(c)
    \/ \E c \in Callers : GenerateStore(c)
    \/ \E c \in Callers : GenerateReturn(c)
    \/ \E c \in Callers : ProcessReturn(c)

ConcurrentSpec == ConcurrentInit /\ [][ConcurrentNext]_vars

-----------------------------------------------------------------------------
(* parse_natural_language(text, use_new_pipeline) of parser.py: the new    *)
(* pipeline first, and the legacy translator when it is switched off or    *)
(* raises                                                                  *)

\* the texts of the calls: queries that the new pipeline accepts, queries for
\* every rule of english_to_dsl and every branch of parse_dsl, and queries
\* that neither path understands
NLInputs == {
    <<"s","e","l","e","c","t"," ","a","l","l"," ","f","r","o","m"," ","u","s","e","r","s">>,
    <<"s","h","o","w"," ","u","s","e","r","s">>,
    <<"c","o","u","n","t"," ","u","s","e","r","s">>,
    <<"s","e","l","e","c","t"," ","n","a","m","e"," ","f","r","o","m"," ","u","s","e","r","s"," ","w","h","e","r","e"," ","a","g","e"," ",">"," ","2","0">>,
    <<"i","n","s","e","r","t"," ","i","n","t","o"," ","u","s","e","r","s"," ","v","a","l","u","e","s"," ","1",","," ","'","J","o","h","n","'",","," ","2","5">>,
    <<"d","e","l","e","t","e"," ","f","r","o","m"," ","u","s","e","r","s"," ","w","h","e","r","e"," ","i","d"," ","="," ","5">>,
    <<"u","p","d","a","t","e"," ","u","s","e","r","s"," ","s","e","t"," ","a","g","e"," ","="," ","3","0"," ","w","h","e","r","e"," ","i","d"," ","="," ","1">>,
    <<"f","i","n","d"," ","u","s","e","r","s"," ","w","h","e","r","e"," ","n","a","m","e"," ","c","o","n","t","a","i","n","s"," ","'","a","n","'">>,
    <<"s","e","l","e","c","t"," ","d","i","s","t","i","n","c","t"," ","c","i","t","y"," ","f","r","o","m"," ","c","u","s","t","o","m","e","r","s">>,
    <<"s","e","l","e","c","t"," ","u","n","i","q","u","e"," ","c"," ","f","r","o","m"," ","t">>,
    <<"l","i","s","t"," ","a","l","l"," ","o","f"," ","u","s","e","r","s">>,
    <<"l","i","s","t"," ","a","l","l"," ","n","a","m","e","s"," ","o","f"," ","u","s","e","r","s">>,
    <<"l","i","s","t"," ","a","l","l"," ","o","f"," ","u","s","e","r","s"," ","w","h","e","r","e"," ","a","g","e"," ",">","="," ","2","0">>,
    <<"L","i","s","t"," ","A","l","l"," ","n","a","m","e","s"," ","O","f"," ","u","s","e","r","s"," ","w","h","e","r","e"," ","a","g","e"," ","i","s"," ","e","q","u","a","l"," ","t","o"," ","5">>,
    <<"l","i","s","t"," "," ","n","a","m","e"," ","f","r","o","m"," ","u","s","e","r","s"," ","w","h","e","r","e"," ","a","g","e"," ",">"," ","5">>,
    <<"l","i","s","t"," ","a","l","l"," "," ","n","a","m","e"," ","f","r","o","m"," ","u","s","e","r","s"," ","w","h","e","r","e"," ","a","g","e"," ","="," ","5">>,
    <<"h","o","w"," ","m","a","n","y"," ","u","s","e","r","s">>,
    <<"h","o","w"," ","m","a","n","y"," ","i","d"," ","f","r","o","m"," ","u","s","e","r","s">>,
    <<"h","o","w"," ","m","a","n","y"," ","u","s","e","r","s"," ","w","h","e","r","e"," ","a","g","e"," ",">"," ","5">>,
    <<"h","o","w"," ","m","a","n","y"," ","i","d"," ","f","r","o","m"," ","u","s","e","r","s"," ","w","h","e","r","e"," ","a","g","e"," ","<"," ","5">>,
    <<"h","o","w"," ","m","a","n","y"," ","u","s","e","r","s"," ","w","h","e","r","e"," ","a","g","e"," ",">","="," ","5">>,
    <<"t","o","t","a","l"," ","f","r","o","m"," ","s","a","l","e","s">>,
    <<"t","o","t","a","l"," ","a","m","o","u","n","t"," ","f","r","o","m"," ","s","a","l","e","s">>,
    <<"t","o","t","a","l"," ","a","m","o","u","n","t"," ","f","r","o","m"," ","s","a","l","e","s"," ","w","h","e","r","e"," ","r","e","g","i","o","n"," ","="," ","n","o","r","t","h">>,
    <<"s","u","m"," ","f","r","o","m">>,
    <<"s","e","l","e","c","t"," ","a","l","l"," ","u","s","e","r","s"," ","w","h","e","r","e"," ","a","g","e"," ",">","="," ","5"," ","o","r","d","e","r"," ","b","y">>,
    <<"s","e","l","e","c","t"," ","a","l","l"," ","u","s","e","r","s"," ","w","h","e","r","e"," ","a","g","e"," ","="," ","x"," ","o","r","d","e","r"," ","b","y"," ","n","a","m","e"," ","d","e","s","c">>,
    <<"s","e","l","e","c","t"," ","a","l","l"," ","u","s","e","r","s"," ","o","r","d","e","r"," ","b","y">>,
    <<"s","e","l","e","c","t"," ","a","l","l"," ","u","s","e","r","s"," ","o","r","d","e","r"," ","b","y"," ","n","a","m","e">>,
    <<"s","e","l","e","c","t"," ","a","l","l"," ","u","s","e","r","s"," ","o","r","d","e","r"," ","b","y"," ","n","a","m","e"," ","a","s","c">>,
    <<"s","e","l","e","c","t"," ","a","l","l"," ","u","s","e","r","s"," ","o","r","d","e","r"," ","b","y"," ","d","e","s","c">>,
    <<"s","e","l","e","c","t"," ","a",","," ","b"," ","f","r","o","m"," ","t"," ","g","r","o","u","p"," ","b","y">>,
    <<"s","e","l","e","c","t"," ","a",","," ","b"," ","f","r","o","m"," ","t"," ","g","r","o","u","p"," ","b","y"," ","c"," ","x">>,
    <<"s","e","l","e","c","t"," ","a",",","b"," ","f","r","o","m"," ","t"," ","g","r","o","u","p"," ","b","y"," ","c"," ","y">>,
    <<"d","i","s","p","l","a","y"," ","u","s","e","r","s"," ","w","h","e","r","e"," ","a"," ",">"," ","1"," ","a","n","d"," ","b"," ","<"," ","2">>,
    <<"d","i","s","p","l","a","y"," ","a","l","l"," ","u","s","e","r","s"," ","w","h","e","r","e"," ","a"," ","="," ","1"," ","o","r"," ","b"," ","="," ","2">>,
    <<"d","i","s","p","l","a","y"," ","a",","," ","b"," ","f","r","o","m"," ","u","s","e","r","s"," ","w","h","e","r","e"," ","a"," ",">"," ","1"," ","a","n","d"," ","b"," ","<"," ","2">>,
    <<"d","i","s","p","l","a","y"," ","a",","," ","b"," ","u","s","e","r","s"," ","w","h","e","r","e"," ","a",">","1"," ","o","r"," ","b","<","2">>,
    <<"s","e","l","e","c","t"," ","f","r","o","m"," ","u","s","e","r","s"," ","w","h","e","r","e"," ","a"," ",">"," ","1"," ","a","n","d"," ","b"," ","<"," ","2"," ","x">>,
    <<"a","d","d"," ","n","e","w"," ","r","o","w"," ","i","n","t","o"," ","u","s","e","r","s"," ","v","a","l","u","e","s"," ","1",","," ","'","J","o","h","n","'",","," ","2","5">>,
    <<"i","n","s","e","r","t"," ","i","n","t","o"," ","u","s","e","r","s"," ","v","a","l","u","e","s">>,
    <<"i","n","s","e","r","t"," ","i","n","t","o"," ","u","s","e","r","s"," ","v","a","l","u","e","s"," ",")">>,
    <<"c","h","a","n","g","e"," ","u","s","e","r","s"," ","s","e","t"," ","n","a","m","e"," ","="," ","'","a","l"," ","b","'"," ","w","h","e","r","e"," ","i","d"," ","="," ","5">>,
    <<"c","h","a","n","g","e"," ","u","s","e","r","s"," ","s","e","t"," ","a"," ","="," ","b">>,
    <<"u","p","d","a","t","e"," ","u","s","e","r","s"," ","s","e","t"," ","a"," ","="," ","1"," ","w","h","e","r","e"," ","b"," ","="," ","2"," ","c"," ","="," ","3"," ","w","h","e","r","e">>,
    <<"r","e","m","o","v","e"," ","f","r","o","m"," ","u","s","e","r","s"," ","w","h","e","r","e"," ","i","d"," ",">"," ","5"," ","6">>,
    <<"d","e","l","e","t","e"," ","f","r","o","m"," ","u","s","e","r","s"," ","w","h","e","r","e"," ","n","a","m","e"," ","="," ","'","a"," ","b","'"," ",".">>,
    <<"r","e","m","o","v","e"," ","f","r","o","m"," ","u","s","e","r","s"," ","w","h","e","r","e">>,
    <<"r","e","m","o","v","e"," ","c","o","l","u","m","n"," ","a",","," ","b"," ","f","r","o","m"," ","u","s","e","r","s"," ","x"," ","y">>,
    <<"d","e","l","e","t","e"," ","c","o","l","u","m","n","s"," ","a"," ","f","r","o","m"," ","u","s","e","r","s"," ","f","r","o","m">>,
    <<"r","e","m","o","v","e"," ","c","o","l"," ","a",",","b"," ",","," ","c"," ","f","r","o","m"," ","t"," ","t">>,
    <<"d","e","l","e","t","e"," ","c","o","l","u","m","n"," ","f","r","o","m"," ","u","s","e","r","s">>,
    <<"s","e","a","r","c","h"," ","u","s","e","r","s"," ","w","h","e","r","e"," ","n","a","m","e"," ","l","i","k","e"," ","'","a","'"," ","b","'">>,
    <<"f","i","n","d"," ","u","s","e","r","s"," ","w","h","e","r","e"," ","n","a","m","e"," ","c","o","n","t","a","i","n","s"," ","'","x">>,
    <<"s","e","a","r","c","h"," ","u","s","e","r","s"," ","w","h","e","r","e"," ","n","a","m","e"," ","l","i","k","e"," ","'","%","a","%","'"," ","a","n","d">>,
    <<"s","e","l","e","c","t"," ","u","s","e","r","s"," ","w","h","e","r","e"," ","a","g","e"," ","b","e","t","w","e","e","n"," ","1"," ","a","n","d"," ","2"," ","a","n","d">>,
    <<"s","e","l","e","c","t"," ","u","s","e","r","s"," ","w","h","e","r","e"," ","a","g","e"," ","b","e","t","w","e","e","n"," ","a"," ","a","n","d"," ","b">>,
    <<"s","e","l","e","c","t"," ","u","s","e","r","s"," ","w","h","e","r","e"," ","i","d"," ","i","n"," ","1",","," ","2"," ",",","3"," ",")">>,
    <<"s","e","l","e","c","t"," ","u","s","e","r","s"," ","w","h","e","r","e"," ","i","d"," ","i","n"," ","(","1",","," ","2">>,
    <<"s","e","l","e","c","t"," ","u","s","e","r","s"," ","w","h","e","r","e"," ","i","d"," ","i","n"," ">>,
    <<"s","e","l","e","c","t"," ","d","i","s","t","i","n","c","t"," ","a"," ","f","r","o","m"," ","t"," ",")">>,
    <<"s","e","l","e","c","t"," ","u","n","i","q","u","e"," ","a"," ","f","r","o","m">>,
    <<"s","h","o","w"," ","m","e"," ","u","s","e","r","s">>,
    <<"g","i","v","e"," ","m","e"," ","a","l","l"," ","u","s","e","r","s">>,
    <<"g","e","t"," ","m","e"," ","a","l","l">>,
    <<"g","e","t"," ","a","l","l"," ","u","s","e","r","s">>,
    <<"d","i","s","p","l","a","y"," ","m","e">>,
    <<"g","e","t"," ","a","l","l"," ","u","s","e","r","s"," ","w","h","e","r","e"," ","a","g","e"," ",">"," ","5"," ","(">>,
    <<"s","e","l","e","c","t"," ","a","l","l"," ","d","i","s","t","i","n","c","t"," ","o","f"," ","t">>,
    <<"s","e","l","e","c","t"," ","a","l","l"," ","c","o","u","n","t"," ","o","f"," ","u","s","e","r","s"," ","w","h","e","r","e"," ","x"," ","="," ","1">>,
    <<"S","E","L","E","C","T"," ","A",","," ","B"," ","F","R","O","M"," ","T"," ","G","R","O","U","P"," ","B","Y"," ","C"," ","(">>,
    <<"s","h","o","w"," ","m","e"," ","t","h","e"," ","m","o","n","e","y">>,
    <<"s","e","l","e","c","t"," ","a","l","l"," ","u","s","e","r","s"," ","w","h","e","r","e"," ","a"," ","s","a","m","e"," ","a","s"," ","1"," ","o","r","d","e","r"," ","b","y"," ","b">>,
    <<>>,
    <<" ">>,
    <<"h","e","l","l","o"," ","w","o","r","l","d">>,
    <<"s","e","l","e","c","t">>,
    <<"d","r","o","p"," ","t","a","b","l","e"," ","u","s","e","r","s">>,
    <<"s","e","l","e","c","t"," ","a","l","l">>,
    <<"s","e","l","e","c","t"," ","f","r","o","m"," ","t">>,
    <<"s","e","l","e","c","t"," ","t"," ","w","h","e","r","e"," ","x"," ","="," ","1",".","2",".","3">>,
    <<"u","s","e","r","s">>,
    <<"'">>,
    <<"s","e","l","e","c","t"," ","'","a">>,
    <<"@">>,
    <<"s","e","l","e","c","t"," ","c","a","f","é"," ","f","r","o","m"," ","t"," ","w","h","e","r","e"," ","é"," ",">"," ","5">>,
    <<"s","h","o","w","","u","s","e","r","s">>,
    <<"S","h","o","w"," ","A","l","l"," ","Ñ","a","m","e","s"," ","O","f"," ","Ü","s","e","r","s"," ","w","h","e","r","e"," ","a","g","e"," ","i","s"," ","²">>,
    <<"s","e","l","e","c","t"," ","a","l","l"," ","u","s","e","r","s"," ","w","h","e","r","e"," ","a","g","e"," ",">","="," ","²"," ","o","r","d","e","r"," ","b","y"," ","n","a","m","e">>,
    <<"c","o","u","n","t"," ","u","s","e","r","s"," ","w","h","e","r","e"," ","x"," ","="," ","0",".","0","0","0","0","1">>,
    <<"l","i","s","t"," ","a","l","l"," ","o","f"," ","u","s","e","r","s"," ","w","h","e","r","e"," ","a","g","e"," ",">","="," ","2","0">>,
    <<"i","n","s","e","r","t"," ","i","n","t","o"," ","u","s","e","r","s"," ","v","a","l","u","e","s"," ","¼",","," ","5","",","," ","1","²">>
}

\* ret while the call parse_natural_language(t, b) is running
Running(t, b) ==
    [call |-> "parse_natural_language", args |-> [text |-> t, use_new_pipeline |-> b],
     before |-> NewPipeline, err |-> "", val |-> <<>>]

NLInit ==
    /\ text \in NLInputs
    /\ ltext = <<>>
    /\ pos = 0
    /\ tokens = <<>>
    /\ phase = "call"
    /\ ast = NoNode
    /\ sql = <<>>
    /\ error = ""
    /\ pipelines = [i \in Instances |-> NewPipeline]
    /\ calls = [c \in Callers |-> NotCalling]
    /\ shared = FALSE
    /\ \E b \in BOOLEAN : ret = Running(text, b)

\* "if use_new_pipeline and HAS_NEW_PIPELINE: try: ... NLToSQLPipeline().process(text)":
\* the dict is returned, or the exception is caught and the fallback follows
TryNewPipeline ==
    /\ phase = "call"
    /\ ret.args.use_new_pipeline /\ HAS_NEW_PIPELINE
    /\ \E r \in {Pipeline_process(NewPipeline, text)} :
           /\ phase' = IF r.err = "" THEN "pipeline"
                       ELSE IF Caught(r.err) THEN "fallback" ELSE "raised"
           /\ error' = r.err
           /\ ret' = IF r.err = "" THEN [ret EXCEPT !.val = NewResult(text, r.val)]
                     ELSE IF Caught(r.err) THEN ret ELSE [ret EXCEPT !.err = r.err]
    /\ UNCHANGED <<text, ltext, pos, tokens, ast, sql, pipelines, calls, shared>>

\* use_new_pipeline is False: the call goes to the legacy translator at once
SkipNewPipeline ==
    /\ phase = "call"
    /\ ~(ret.args.use_new_pipeline /\ HAS_NEW_PIPELINE)
    /\ phase' = "fallback"
    /\ UNCHANGED <<text, ltext, pos, tokens, ast, sql, error, callVars>>

\* the fallback: english_to_dsl, parse_dsl, ast_to_sql, and the dict is returned
LegacyTranslate ==
    /\ phase = "fallback"
    /\ ret' = [ret EXCEPT !.val = LegacyResult(text)]
    /\ phase' = "legacy"
    /\ UNCHANGED <<text, ltext, pos, tokens, ast, sql, error, pipelines, calls, shared>>

NLNext ==
    \/ TryNewPipeline
    \/ SkipNewPipeline
    \/ LegacyTranslate

NLSpec == NLInit /\ [][NLNext]_vars

-----------------------------------------------------------------------------
(* Properties                                                              *)

TokenTypes(toks) == [i \in 1..Len(toks) |-> toks[i].type]

\* the kinds and lexemes of a token sequence, without the offsets
KindsAndLexemes(toks) == [i \in 1..Len(toks) |-> <<toks[i].type, toks[i].value>>]

HasToken(type) == \E i \in 1..Len(tokens) : tokens[i].type = type

Lexed == phase # "scan"
ParseReturned == phase \in {"parsed", "done"} \/ (phase = "error" /\ ast # NoNode)
ParseRaised == phase = "error" /\ ast = NoNode
GenerateRaised == phase = "error" /\ ast # NoNode

InsertJohn == <<"i","n","s","e","r","t"," ","i","n","t","o"," ","u","s","e","r","s"," ","v","a","l","u","e","s"," ","1",","," ","'","J","o","h","n","'",","," ","2","5">>

\* t occurs in the input between two quote characters q
QuotedInInput(t) ==
    \E q \in {"'", "\""} : \E p \in 0..Len(text) :
        StartsWithAt(text, p, <<q>> \o t \o <<q>>)

\* C1: process("insert into users values 1, 'John', 25") returns the sql
\* "INSERT INTO users VALUES (1, 'John', 25);", and the value of every STRING
\* token is the text written between the quotes of the input, in its case.
C1_StringLiteralUnchanged ==
    /\ (phase = "done" /\ text = InsertJohn) =>
            sql = <<"I","N","S","E","R","T"," ","I","N","T","O"," ","u","s","e","r","s"," ","V","A","L","U","E","S"," ","(","1",","," ","'","J","o","h","n","'",","," ","2","5",")",";">>
    /\ (Lexed /\ text \in Samples) =>
            \A i \in 1..Len(tokens) :
                tokens[i].type = "STRING" => QuotedInInput(tokens[i].value)

\* C2: ast_to_sql never raises on an AST that Parser.parse returned, and
\* every entry of Select.columns is a string.
C2_GenerateNeverRaises ==
    /\ ~GenerateRaised
    /\ (ParseReturned /\ ast.node = "Select") =>
            \A i \in 1..Len(ast.columns) : ast.columns[i].kind = "str"

\* C3: Parser.parse returns an AST or fails with ParseError; no other
\* exception escapes it.
C3_OnlyParseError == ParseRaised => error = "ParseError"

\* C4: every Select node that Parser.parse returns has a non-empty table name.
C4_SelectHasTable ==
    (ParseReturned /\ ast.node = "Select") =>
        (ast.table.kind = "str" /\ ast.table.text # <<>>)

\* C5: every iteration of the scan loop strictly increases the scan position
\* and stays within the text, and the step that leaves the loop appends the
\* EOF token at the end of the text: after at most Len(ltext) iterations
\* tokenize returns the token list.
C5_TokenizeTerminates ==
    [][phase = "scan" =>
            \/ (phase' = "scan" /\ pos' > pos /\ pos' <= Len(ltext))
            \/ (/\ phase' = "lexed"
                /\ pos' = Len(ltext)
                /\ tokens'[Len(tokens')] = EofToken(Len(ltext)))]_vars

\* C5 witness: a scan that went through the number, string, word and
\* operator branches, dropped nothing else, and returned
C5_Witness ==
    /\ phase = "lexed"
    /\ HasToken("NUMBER") /\ HasToken("STRING") /\ HasToken("IDENTIFIER")
    /\ HasToken("COMMA") /\ HasToken("EOF")

\* the token type of a canonical operator symbol
SymbolType(sym) ==
    CASE sym = <<">","=">> -> "GREATER_EQ"
      [] sym = <<"<","=">> -> "LESS_EQ"
      [] sym = <<"!","=">> -> "NOT_EQUALS"
      [] sym = <<">">>  -> "GREATER"
      [] sym = <<"<">>  -> "LESS"
      [] sym = <<"=">>  -> "EQUALS"

\* C6: every phrase of the substitution table, written in the input, is
\* replaced by its own canonical symbol and tokenizes to that operator:
\* "x <phrase> 5" gives IDENTIFIER, the operator of the phrase, NUMBER, EOF.
C6_PhraseToOwnOperator ==
    \A i \in 1..Len(OPERATOR_PHRASES) :
        (Lexed /\ text = PhraseQuery(<<<<"x"," ">>, <<" ","5">>>>, i)) =>
            TokenTypes(tokens) =
                <<"IDENTIFIER", SymbolType(OPERATOR_PHRASES[i][2]), "NUMBER", "EOF">>

\* C7: a query written with an operator phrase tokenizes to the same kinds
\* and lexemes as the same query with the canonical symbol in its place.
C7_PhraseSameAsNormalized ==
    \A ctx \in PhraseContexts : \A i \in 1..Len(OPERATOR_PHRASES) :
        (Lexed /\ text = PhraseQuery(ctx, i)) =>
            KindsAndLexemes(tokens) = KindsAndLexemes(Tokenize(NormalizedQuery(ctx, i)))

TwoCharOperators == {<<">","=">>, <<"<","=">>, <<"!","=">>}

\* position p of the scanned text lies between the quotes of a STRING token
InsideString(p) ==
    \E i \in 1..Len(tokens) :
        /\ tokens[i].type = "STRING"
        /\ tokens[i].position < p
        /\ p <= tokens[i].position + Len(tokens[i].value)

\* the two characters at p are one two-character operator token
OneTokenAt(p) ==
    /\ \E i \in 1..Len(tokens) :
          tokens[i] = Token(SymbolType(Slice(ltext, p, p + 2)), Slice(ltext, p, p + 2), p)
    /\ ~\E i \in 1..Len(tokens) : tokens[i].position = p + 1

\* GREATER or LESS is never followed by an EQUALS read from the next character
NoSplitOperator ==
    \A i \in 1..(Len(tokens) - 1) :
        (tokens[i].type \in {"GREATER", "LESS"} /\ tokens[i + 1].type = "EQUALS")
            => tokens[i + 1].position # tokens[i].position + 1

\* C8 as stated: wherever the scanned text holds ">=", "<=" or "!=", one
\* GREATER_EQ, LESS_EQ or NOT_EQUALS token stands for them.
C8_TwoCharEverywhere ==
    Lexed =>
        /\ \A p \in 0..(Len(ltext) - 2) :
              Slice(ltext, p, p + 2) \in TwoCharOperators => OneTokenAt(p)
        /\ NoSplitOperator

\* C8 amended: wherever the scanned text holds ">=", "<=" or "!=" outside a
\* quoted string literal, one GREATER_EQ, LESS_EQ or NOT_EQUALS token stands
\* for them, and GREATER or LESS is never followed by the EQUALS of the next
\* character.
C8_TwoCharOutsideStrings ==
    Lexed =>
        /\ \A p \in 0..(Len(ltext) - 2) :
              (Slice(ltext, p, p + 2) \in TwoCharOperators /\ ~InsideString(p))
                  => OneTokenAt(p)
        /\ NoSplitOperator

\* C8 witness: ">>=" was scanned to GREATER, GREATER_EQ
C8_Witness ==
    /\ phase = "lexed"
    /\ ltext = <<">",">","=">>
    /\ TokenTypes(tokens) = <<"GREATER", "GREATER_EQ", "EOF">>

\* C9: the value parsed from a NUMBER token is a floating value when the
\* lexeme contains '.', and an integer value otherwise ("select t where x = n"
\* for every number lexeme n).
C9_NumberClassification ==
    (text \in NumberInputs /\ phase \notin {"scan", "lexed"}) =>
        /\ ~ParseRaised
        /\ ast.where.condition.value.kind =
              (IF Contains(tokens[6].value, ".") THEN "float" ELSE "int")

IsConnective(c) == c.node \in {"And", "Or"}

\* no And/Or node of the tree has an And/Or node as right child
RECURSIVE RightChildrenAreLeaves(_)
RightChildrenAreLeaves(c) ==
    IsConnective(c) => (~IsConnective(c.right) /\ RightChildrenAreLeaves(c.left))

\* the connectives of a left-growing tree, first to last
RECURSIVE SpineConnectives(_)
SpineConnectives(c) ==
    IF IsConnective(c)
    THEN Append(SpineConnectives(c.left), IF c.node = "And" THEN "AND" ELSE "OR")
    ELSE <<>>

\* the columns of the conditions of a left-growing tree, first to last
RECURSIVE SpineColumns(_)
SpineColumns(c) ==
    IF IsConnective(c) THEN Append(SpineColumns(c.left), c.right.column)
    ELSE <<c.column>>

\* the positions of the tokens that join two conditions: AND / OR, except
\* the AND of "BETWEEN low AND high"
ConnectivePositions ==
    {i \in 3..Len(tokens) :
        tokens[i].type \in {"AND", "OR"} /\ tokens[i - 2].type # "BETWEEN"}

\* the subsequence of f at the positions S, in order
RECURSIVE Pick(_, _)
Pick(f, S) ==
    IF S = {} THEN <<>>
    ELSE LET m == CHOOSE x \in S : \A y \in S : y <= x
         IN  Append(Pick(f, S \ {m}), f[m])

CondA == SimpleCondition(<<"a">>, <<"=">>, PyInt(<<"1">>))
CondB == BetweenCondition(<<"b">>, PyInt(<<"1">>), PyInt(<<"2">>))
CondC == InCondition(<<"c">>, <<PyInt(<<"1">>), PyStr(<<"x">>)>>)

\* C10: a chain of conditions joined by AND/OR is folded left to right with
\* no precedence: no right child is an And/Or node, the connectives and the
\* conditions appear along the left spine in input order, A AND B OR C gives
\* Or(And(A,B),C) and A OR B AND C gives And(Or(A,B),C).
C10_LeftFold ==
    (ParseReturned /\ text \in ChainInputs) =>
        LET c == ast.where.condition
        IN  /\ RightChildrenAreLeaves(c)
            /\ SpineConnectives(c) = Pick(TokenTypes(tokens), ConnectivePositions)
            /\ SpineColumns(c) =
                  Pick([i \in 1..Len(tokens) |-> tokens[i].value],
                       {4} \cup {i + 1 : i \in ConnectivePositions})
            /\ (text = <<"s","e","l","e","c","t"," ","t"," ","w","h","e","r","e"," ","a"," ","="," ","1"," ","a","n","d"," ","b"," ","b","e","t","w","e","e","n"," ","1"," ","a","n","d"," ","2"," ","o","r"," ","c"," ","i","n"," ","(","1",","," ","'","x","'",")">>)
                  => c = OrCondition(AndCondition(CondA, CondB), CondC)
            /\ (text = <<"s","e","l","e","c","t"," ","t"," ","w","h","e","r","e"," ","a"," ","="," ","1"," ","o","r"," ","b"," ","b","e","t","w","e","e","n"," ","1"," ","a","n","d"," ","2"," ","a","n","d"," ","c"," ","i","n"," ","(","1",","," ","'","x","'",")">>)
                  => c = AndCondition(OrCondition(CondA, CondB), CondC)

\* C10 witness: A AND B OR C was parsed
C10_Witness ==
    /\ phase = "parsed"
    /\ text = <<"s","e","l","e","c","t"," ","t"," ","w","h","e","r","e"," ","a"," ","="," ","1"," ","a","n","d"," ","b"," ","b","e","t","w","e","e","n"," ","1"," ","a","n","d"," ","2"," ","o","r"," ","c"," ","i","n"," ","(","1",","," ","'","x","'",")">>
    /\ ast.where.condition.node = "Or"
    /\ ast.where.condition.left.node = "And"

\* Parser.parse has run on the tokens of the state
AfterParse == phase \notin {"scan", "lexed"}

\* Parser.parse raised ParseError
Rejected == ParseRaised /\ error = "ParseError"

\* the type of the i-th token (1-based), EOF past the end
TypeAt(i) == IF i <= Len(tokens) THEN tokens[i].type ELSE "EOF"

\* the statement starts SELECT [DISTINCT] ALL or SELECT [DISTINCT] *
SelectAllForm ==
    /\ TypeAt(1) = "SELECT"
    /\ \/ TypeAt(2) \in {"ALL", "STAR"}
       \/ (TypeAt(2) = "DISTINCT" /\ TypeAt(3) \in {"ALL", "STAR"})

\* the index of the token after ALL or *
AfterAllIndex == IF TypeAt(2) = "DISTINCT" THEN 4 ELSE 3

\* C11 as stated: after SELECT ALL or SELECT *, a next token that is not FROM
\* makes the parse fail with ParseError.
C11_FromRequiredAfterAll ==
    (AfterParse /\ SelectAllForm /\ TypeAt(AfterAllIndex) # "FROM") => Rejected

\* C11 amended: after SELECT ALL or SELECT *, a table is required and the FROM
\* keyword is optional: the parse fails with ParseError when the next token is
\* neither FROM nor an identifier, or when FROM is not followed by an
\* identifier; a statement that names the table does not fail at that place.
C11_TableRequiredAfterAll ==
    (AfterParse /\ SelectAllForm) =>
        LET k == AfterAllIndex
        IN  /\ TypeAt(k) \notin {"FROM", "IDENTIFIER"} => Rejected
            /\ (TypeAt(k) = "FROM" /\ TypeAt(k + 1) # "IDENTIFIER") => Rejected
            /\ (TypeAt(k) = "IDENTIFIER" /\ TypeAt(k + 1) = "EOF") => ParseReturned
            /\ (TypeAt(k) = "FROM" /\ TypeAt(k + 1) = "IDENTIFIER" /\ TypeAt(k + 2) = "EOF")
                   => ParseReturned

\* C11 witness: "select * where x = 1" was rejected with ParseError
C11_Witness ==
    /\ text = <<"s","e","l","e","c","t"," ","*"," ","w","h","e","r","e"," ","x"," ","="," ","1">>
    /\ phase = "error" /\ error = "ParseError" /\ ast = NoNode

\* C12: "select all T" / "show all T" without FROM is SELECT * FROM T, and a
\* following WHERE or ORDER BY clause is parsed; the two sentences of
\* test_pipeline give their SQL and no error.
C12_FromOptionalAfterAll ==
    /\ (AfterParse /\ SelectAllForm /\ TypeAt(AfterAllIndex) = "IDENTIFIER") =>
          LET k == AfterAllIndex
          IN  /\ TypeAt(k + 1) \in {"EOF"} => ParseReturned
              /\ ParseReturned =>
                    /\ ast.node = "Select"
                    /\ ast.columns = <<Star>>
                    /\ ast.table = PyStr(tokens[k].value)
                    /\ TypeAt(k + 1) = "WHERE" => ast.where # NoNode
                    /\ TypeAt(k + 1) = "ORDER" => ast.order_by # NoNode
    /\ text = <<"s","h","o","w"," ","a","l","l"," ","p","r","o","d","u","c","t","s"," ","w","h","e","r","e"," ","p","r","i","c","e"," ",">"," ","1","0","0">> =>
          /\ phase # "error"
          /\ phase = "done" => sql = <<"S","E","L","E","C","T"," ","*"," ","F","R","O","M"," ","p","r","o","d","u","c","t","s"," ","W","H","E","R","E"," ","p","r","i","c","e"," ",">"," ","1","0","0",";">>
    /\ text = <<"s","e","l","e","c","t"," ","a","l","l"," ","p","r","o","d","u","c","t","s"," ","o","r","d","e","r"," ","b","y"," ","p","r","i","c","e"," ","d","e","s","c">> =>
          /\ phase # "error"
          /\ phase = "done" => sql = <<"S","E","L","E","C","T"," ","*"," ","F","R","O","M"," ","p","r","o","d","u","c","t","s"," ","O","R","D","E","R"," ","B","Y"," ","p","r","i","c","e"," ","D","E","S","C",";">>

\* C12 witness: "show all products where price > 100" was processed
C12_Witness ==
    /\ text = <<"s","h","o","w"," ","a","l","l"," ","p","r","o","d","u","c","t","s"," ","w","h","e","r","e"," ","p","r","i","c","e"," ",">"," ","1","0","0">>
    /\ phase = "done"
    /\ sql = <<"S","E","L","E","C","T"," ","*"," ","F","R","O","M"," ","p","r","o","d","u","c","t","s"," ","W","H","E","R","E"," ","p","r","i","c","e"," ",">"," ","1","0","0",";">>

\* C13: after SELECT, an identifier directly followed by WHERE, ORDER, GROUP
\* or the end of input is the table name and the columns are ["*"]; the
\* sentence of test_pipeline gives its SQL.
C13_TableShorthand ==
    /\ (AfterParse /\ TypeAt(1) = "SELECT" /\ TypeAt(2) = "IDENTIFIER"
           /\ TypeAt(3) \in {"WHERE", "ORDER", "GROUP", "EOF"}) =>
          /\ TypeAt(3) = "EOF" => ParseReturned
          /\ ParseReturned =>
                /\ ast.node = "Select"
                /\ ast.columns = <<Star>>
                /\ ast.table = PyStr(tokens[2].value)
                /\ TypeAt(3) = "WHERE" => ast.where # NoNode
                /\ TypeAt(3) = "ORDER" => ast.order_by # NoNode
                /\ TypeAt(3) = "GROUP" => ast.group_by # NoNode
    /\ text = <<"s","e","l","e","c","t"," ","u","s","e","r","s"," ","w","h","e","r","e"," ","a","g","e"," ",">"," ","2","0"," ","a","n","d"," ","s","a","l","a","r","y"," ","<"," ","5","0","0","0">> =>
          /\ phase # "error"
          /\ phase = "done" => sql = <<"S","E","L","E","C","T"," ","*"," ","F","R","O","M"," ","u","s","e","r","s"," ","W","H","E","R","E"," ","a","g","e"," ",">"," ","2","0"," ","A","N","D"," ","s","a","l","a","r","y"," ","<"," ","5","0","0","0",";">>

\* C13 witness: "select users where age > 20 and salary < 5000" was processed
C13_Witness ==
    /\ text = <<"s","e","l","e","c","t"," ","u","s","e","r","s"," ","w","h","e","r","e"," ","a","g","e"," ",">"," ","2","0"," ","a","n","d"," ","s","a","l","a","r","y"," ","<"," ","5","0","0","0">>
    /\ phase = "done"
    /\ ast.table = PyStr(<<"u","s","e","r","s">>)
    /\ ast.columns = <<Star>>

\* C14: a DELETE whose next token is neither FROM nor COLUMN fails with
\* ParseError.
C14_DeleteRequiresFrom ==
    (AfterParse /\ TypeAt(1) = "DELETE" /\ TypeAt(2) \notin {"FROM", "COLUMN"}) => Rejected

\* the index of the token after a column list "a, b, ..." that starts at
\* token i, a comma with no identifier after it included
RECURSIVE SkipCommaList(_)
SkipCommaList(i) ==
    IF TypeAt(i) = "COMMA"
    THEN SkipCommaList(IF TypeAt(i + 1) = "IDENTIFIER" THEN i + 2 ELSE i + 1)
    ELSE i

SkipColumnList(i) == IF TypeAt(i) = "IDENTIFIER" THEN SkipCommaList(i + 1) ELSE i

\* the SELECT statement up to the place where ORDER may stand: the target and
\* the optional WHERE clause
SelectToOrder ==
    Then(SelectTarget(tokens, IF TypeAt(2) = "DISTINCT" THEN 2 ELSE 1),
         LAMBDA target : OptionalWhere(tokens, target.pos))

\* the SELECT statement up to the place where GROUP may stand
SelectToGroup ==
    Then(SelectToOrder, LAMBDA where : OptionalOrderBy(tokens, where.pos))

\* the parser of a SELECT statement stands at the clause keyword kw, which is
\* token i
ClauseAt(upto, kw, i) ==
    /\ TypeAt(1) = "SELECT"
    /\ upto.err = ""
    /\ i = upto.pos + 1
    /\ TypeAt(i) = kw

\* C15: a statement whose mandatory keyword is missing at its position fails
\* with ParseError: INTO after INSERT, VALUES after the INSERT table, SET after
\* the UPDATE table, '=' after the SET column, BY after ORDER and after GROUP,
\* a column after GROUP BY, TABLE after ALTER, DROP and COLUMN after the ALTER
\* TABLE table, FROM after the column list of DELETE COLUMN.
C15_MandatoryKeywords ==
    AfterParse =>
        /\ (TypeAt(1) = "INSERT" /\ TypeAt(2) # "INTO") => Rejected
        /\ (TypeAt(1) = "INSERT" /\ TypeAt(2) = "INTO" /\ TypeAt(3) = "IDENTIFIER"
                /\ TypeAt(4) # "VALUES") => Rejected
        /\ (TypeAt(1) = "UPDATE" /\ TypeAt(2) = "IDENTIFIER" /\ TypeAt(3) # "SET") => Rejected
        /\ (TypeAt(1) = "UPDATE" /\ TypeAt(2) = "IDENTIFIER" /\ TypeAt(3) = "SET"
                /\ TypeAt(4) = "IDENTIFIER" /\ TypeAt(5) # "EQUALS") => Rejected
        /\ (TypeAt(1) = "ALTER" /\ TypeAt(2) # "TABLE") => Rejected
        /\ (TypeAt(1) = "ALTER" /\ TypeAt(2) = "TABLE" /\ TypeAt(3) = "IDENTIFIER"
                /\ TypeAt(4) # "DROP") => Rejected
        /\ (TypeAt(1) = "ALTER" /\ TypeAt(2) = "TABLE" /\ TypeAt(3) = "IDENTIFIER"
                /\ TypeAt(4) = "DROP" /\ TypeAt(5) # "COLUMN") => Rejected
        /\ (TypeAt(1) = "DELETE" /\ TypeAt(2) = "COLUMN"
                /\ TypeAt(SkipColumnList(3)) # "FROM") => Rejected
        /\ \A i \in 2..Len(tokens) :
              /\ (ClauseAt(SelectToOrder, "ORDER", i) /\ TypeAt(i + 1) # "BY") => Rejected
              /\ (ClauseAt(SelectToGroup, "GROUP", i) /\ TypeAt(i + 1) # "BY") => Rejected
              /\ (ClauseAt(SelectToGroup, "GROUP", i) /\ TypeAt(i + 1) = "BY"
                      /\ TypeAt(i + 2) # "IDENTIFIER") => Rejected

\* C15 witness: "update t set a 1 where x = 1" was rejected at the missing '='
C15_Witness ==
    /\ text = <<"u","p","d","a","t","e"," ","t"," ","s","e","t"," ","a"," ","1"," ","w","h","e","r","e"," ","x"," ","="," ","1">>
    /\ phase = "error" /\ error = "ParseError" /\ ast = NoNode

\* the text s ends with t
EndsWith(s, t) == Len(s) >= Len(t) /\ SubSeq(s, Len(s) - Len(t) + 1, Len(s)) = t

\* a string of digits, optionally preceded by '-'
SignedDigits(s) ==
    \/ StrIsDigit(s)
    \/ (s # <<>> /\ Head(s) = "-" /\ StrIsDigit(Tail(s)))

\* the value is an integer or floating value, or a string that reads as one
NumericValue(v) ==
    \/ v.kind \in {"int", "float"}
    \/ (v.kind = "str" /\ (SignedDigits(v.text) \/ FloatAccepts(v.text)))

\* the rendering C16 describes
Rendered(v) == IF NumericValue(v) THEN v.text ELSE Quoted(v.text)

RenderedList(values) == Join([i \in 1..Len(values) |-> Rendered(values[i])], <<","," ">>)

\* the WHERE clause ends the statement
WhereIsLast == ast.node \in {"Update", "Delete"}
               \/ (ast.node = "Select" /\ ast.order_by = NoNode /\ ast.group_by = NoNode)

\* C16: a value is rendered without quotes exactly when it is an integer or
\* floating value or a string that is all digits (optionally after '-') or
\* that float() accepts, and in single quotes otherwise; in Insert value lists,
\* the Update SET value, Simple condition values and In value lists.
C16_FormatValue ==
    phase = "done" =>
        /\ ast.node = "Insert" =>
              sql = <<"I","N","S","E","R","T"," ","I","N","T","O"," ">> \o ast.table.text \o <<" ","V","A","L","U","E","S"," ","(">>
                    \o RenderedList(ast.values) \o <<")",";">>
        /\ ast.node = "Update" =>
              StartsWithAt(sql, 0, <<"U","P","D","A","T","E"," ">> \o ast.table.text \o <<" ","S","E","T"," ">> \o ast.set_column
                                   \o <<" ","="," ">> \o Rendered(ast.set_value)
                                   \o (IF ast.where = NoNode THEN <<";">> ELSE <<" ","W","H","E","R","E"," ">>))
        /\ (ast.node \in {"Select", "Update", "Delete"} /\ ast.where # NoNode /\ WhereIsLast) =>
              LET c == ast.where.condition
              IN  /\ c.node = "Simple" =>
                        EndsWith(sql, <<" ","W","H","E","R","E"," ">> \o c.column \o <<" ">> \o c.operator \o <<" ">>
                                      \o Rendered(c.value) \o <<";">>)
                  /\ c.node = "In" =>
                        EndsWith(sql, <<" ","W","H","E","R","E"," ">> \o c.column \o <<" ","I","N"," ","(">>
                                      \o RenderedList(c.values) \o <<")",";">>)

\* C16 witness: an In list with a signed number string, a word and a number
C16_Witness ==
    /\ text = <<"s","e","l","e","c","t"," ","t"," ","w","h","e","r","e"," ","a"," ","i","n"," ","(","'","-","5","'",","," ","'","b","'",","," ","2",")">>
    /\ phase = "done"
    /\ sql = <<"S","E","L","E","C","T"," ","*"," ","F","R","O","M"," ","t"," ","W","H","E","R","E"," ","a"," ","I","N"," ","(","-","5",","," ","'","b","'",","," ","2",")",";">>

\* C17: a Like condition, from LIKE or CONTAINS, is rendered as
\* <col> LIKE '<pattern>' with the pattern wrapped as %pattern% exactly when
\* it holds no '%'; "find users where name contains 'an'" gives
\* "SELECT * FROM users WHERE name LIKE '%an%';".
C17_LikeWildcards ==
    /\ (ParseReturned /\ ast.node = "Select" /\ ast.where # NoNode) =>
          \A i \in 3..Len(tokens) :
              (/\ tokens[i].type \in {"LIKE", "CONTAINS"}
               /\ tokens[i - 1].type = "IDENTIFIER" /\ tokens[i - 2].type = "WHERE"
               /\ TypeAt(i + 1) \in {"STRING", "IDENTIFIER"} /\ TypeAt(i + 2) = "EOF")
                  => ast.where.condition = LikeCondition(tokens[i - 1].value, tokens[i + 1].value)
    /\ (phase = "done" /\ ast.node = "Select" /\ ast.where # NoNode /\ WhereIsLast) =>
          LET c == ast.where.condition
          IN  c.node = "Like" =>
                  EndsWith(sql, <<" ","W","H","E","R","E"," ">> \o c.column \o <<" ","L","I","K","E"," ","'">>
                                \o (IF Contains(c.pattern, "%") THEN c.pattern
                                    ELSE <<"%">> \o c.pattern \o <<"%">>)
                                \o <<"'",";">>)
    /\ text = <<"f","i","n","d"," ","u","s","e","r","s"," ","w","h","e","r","e"," ","n","a","m","e"," ","c","o","n","t","a","i","n","s"," ","'","a","n","'">> =>
          /\ phase # "error"
          /\ phase = "done" => sql = <<"S","E","L","E","C","T"," ","*"," ","F","R","O","M"," ","u","s","e","r","s"," ","W","H","E","R","E"," ","n","a","m","e"," ","L","I","K","E"," ","'","%","a","n","%","'",";">>

\* C17 witness: "find users where name contains 'an'" was processed
C17_Witness ==
    /\ text = <<"f","i","n","d"," ","u","s","e","r","s"," ","w","h","e","r","e"," ","n","a","m","e"," ","c","o","n","t","a","i","n","s"," ","'","a","n","'">>
    /\ phase = "done"
    /\ sql = <<"S","E","L","E","C","T"," ","*"," ","F","R","O","M"," ","u","s","e","r","s"," ","W","H","E","R","E"," ","n","a","m","e"," ","L","I","K","E"," ","'","%","a","n","%","'",";">>

-----------------------------------------------------------------------------
(* The orchestrator                                                        *)

\* two outcomes are the same: the same exception, or the same returned value
SameOutcome(a, b) == a.err = b.err /\ (a.err = "" => a.val = b.val)

\* C19: in single-threaded use the outcome of process(text), the dict of
\* input, tokens, ast and sql that it returns or the exception it raises,
\* is the outcome of process(text) on a freshly created orchestrator,
\* whatever tokenize, parse, generate_sql and process calls came before
C19_ProcessDependsOnTextOnly ==
    ret.call = "process" => SameOutcome(ret, Pipeline_process(NewPipeline, ret.args))

\* C19: a process call returned on an orchestrator whose three last_* fields
\* were all set by earlier calls, the tokens being those of another text
C19_Witness ==
    /\ ret.call = "process"
    /\ ret.err = ""
    /\ ret.before.last_tokens # <<>>
    /\ ret.before.last_tokens # Tokenize(ret.args)
    /\ ret.before.last_ast # NoNode
    /\ ret.before.last_sql # <<>>
    /\ ret.val.sql # ret.before.last_sql

\* what process(t) gives on a freshly created orchestrator
FreshProcess(t) == Pipeline_process(NewPipeline, t)

\* caller c is out of its process call, by a return or by an exception
Finished(c) == calls[c].pc \in {"returned", "raised"}

\* C20: with one orchestrator instance per caller, whatever the interleaving,
\* every process call returns or raises what it would on a fresh orchestrator:
\* no call returns tokens, AST or SQL computed from the other caller's text
C20_SeparateInstancesSafe ==
    ~shared => \A c \in Callers : Finished(c) => SameOutcome(calls[c], FreshProcess(calls[c].input))

\* C20: on a shared instance a process call returned, for its own input, the
\* tokens, AST and SQL of the other caller's different text
C20_Witness ==
    /\ shared
    /\ \E c, d \in Callers :
           /\ calls[c].input # calls[d].input
           /\ calls[c].pc = "returned"
           /\ FreshProcess(calls[c].input).err = ""
           /\ FreshProcess(calls[d].input).err = ""
           /\ calls[c].val.input = calls[c].input
           /\ calls[c].val.tokens = FreshProcess(calls[d].input).val.tokens
           /\ calls[c].val.ast = FreshProcess(calls[d].input).val.ast
           /\ calls[c].val.sql = FreshProcess(calls[d].input).val.sql
           /\ calls[c].val.sql # FreshProcess(calls[c].input).val.sql

-----------------------------------------------------------------------------
(* The entry point parse_natural_language                                  *)

\* the call has returned its dict
Returned == phase \in {"pipeline", "legacy"}

\* C18: parse_natural_language never raises; a text on which the new
\* pipeline raises is translated again, whole, by the legacy translator; the
\* dict returned always has an sql field, and has a dsl field exactly when the
\* legacy path produced it; when no rule of english_to_dsl matches, the sql
\* is the comment "-- Error: Could not parse DSL"
C18_AlwaysAResult ==
    /\ phase # "raised"
    /\ ret.err = ""
    /\ phase = "pipeline" => ret.args.use_new_pipeline /\ FreshProcess(text).err = ""
    /\ (phase \in {"fallback", "legacy"} /\ ret.args.use_new_pipeline) =>
           error # "" /\ error = FreshProcess(text).err
    /\ phase = "legacy" => ret.val = LegacyResult(text) /\ ret.val.input = text
    /\ Returned => "sql" \in DOMAIN ret.val
    /\ Returned => ("dsl" \in DOMAIN ret.val <=> phase = "legacy")
    /\ (phase = "legacy" /\ english_to_dsl(text) = NoRule) =>
           ret.val.sql = <<"-","-"," ","E","r","r","o","r",":"," ","C","o","u","l","d"," ","n","o","t"," ","p","a","r","s","e"," ","D","S","L">>

\* C18: the new pipeline raised an exception other than ParseError, no legacy
\* rule matched the text either, and the call returned the error comment
C18_Witness ==
    /\ phase = "legacy"
    /\ ret.args.use_new_pipeline
    /\ error \in {"TypeError", "ValueError"}
    /\ ret.val.dsl = NoRule
    /\ ret.val.sql = <<"-","-"," ","E","r","r","o","r",":"," ","C","o","u","l","d"," ","n","o","t"," ","p","a","r","s","e"," ","D","S","L">>

-----------------------------------------------------------------------------
(* Value lists                                                             *)

\* the statements with a value list: "insert into t values 1, v",
\* "select t where a in (v, 'b', 2)" for every value lexeme v, and the
\* sample "insert into users values 1, 'John', 25"
ListInputs ==
    {t \in ValueInputs : Occurs(t, <<"v","a","l","u","e","s"," ">>) \/ Occurs(t, <<" ","i","n"," ","(">>)} \cup {InsertJohn}

\* the comma-separated list written in the statement t: what follows VALUES,
\* or what stands between the parentheses after IN
WrittenList(t) ==
    IF Occurs(t, <<"v","a","l","u","e","s"," ">>)
    THEN SubSeq(t, FirstOcc(t, <<"v","a","l","u","e","s"," ">>) + 7, Len(t))
    ELSE SubSeq(t, FirstOcc(t, <<"(">>) + 1, Len(t) - 1)

\* the value that the lexeme w denotes: the content of a quoted string, the
\* number of a number lexeme, the name of a bare identifier
WrittenValue(w) ==
    IF Head(w) \in {"'", "\""} THEN PyStr(SubSeq(w, 2, Len(w) - 1))
    ELSE IF IsDigit(Head(w)) THEN (IF Contains(w, ".") THEN PyFloat(w) ELSE PyInt(w))
    ELSE PyStr(w)

\* the values written in the statement t, in the order written
WrittenValues(t) ==
    [i \in 1..Len(Split(WrittenList(t))) |-> WrittenValue(Strip(Split(WrittenList(t))[i]))]

\* the values list of the Insert node, or of the In condition
ParsedList == IF ast.node = "Insert" THEN ast.values ELSE ast.where.condition.values

\* C21: the values list of an Insert node and of an In condition holds exactly
\* the values written in the input, in input order, one entry per
\* comma-separated value, and the generated SQL lists them in that order.
C21_ValuesAsWritten ==
    (text \in ListInputs /\ ParseReturned) =>
        /\ ParsedList = WrittenValues(text)
        /\ (phase = "done" /\ ast.node = "Insert") =>
              sql = <<"I","N","S","E","R","T"," ","I","N","T","O"," ">> \o ast.table.text \o <<" ","V","A","L","U","E","S"," ","(">>
                    \o RenderedList(WrittenValues(text)) \o <<")",";">>
        /\ (phase = "done" /\ ast.node = "Select") =>
              EndsWith(sql, <<" ","I","N"," ","(">> \o RenderedList(WrittenValues(text)) \o <<")",";">>)

\* the same for the statements written without capital letters
C21_LowerCaseValuesAsWritten ==
    text # InsertJohn => C21_ValuesAsWritten

-----------------------------------------------------------------------------
(* The end-of-input token                                                  *)

\* the tokens before the last one, as the dicts of the result of process
WithoutLast(toks) ==
    [i \in 1..(Len(toks) - 1) |-> [type |-> toks[i].type, value |-> toks[i].value]]

\* a character of the preprocessed text that starts no token
UnrecognizedChars == {".", "!"}

\* C22: the tokens that tokenize returns end with exactly one EOF token and
\* hold no EOF and no UNKNOWN token anywhere else (while the scan runs the list
\* holds neither); the tokens list of the result of process is that sequence
\* without its last token, in the same order.
C22_OneEofNoUnknown ==
    /\ \A i \in 1..Len(tokens) : tokens[i].type # "UNKNOWN"
    /\ phase = "scan" => \A i \in 1..Len(tokens) : tokens[i].type # "EOF"
    /\ Lexed =>
          /\ tokens # <<>>
          /\ tokens[Len(tokens)].type = "EOF"
          /\ \A i \in 1..(Len(tokens) - 1) : tokens[i].type # "EOF"
          /\ tokens = Tokenize(text)
    /\ phase = "done" => ProcessResult(text, tokens, ast, sql).tokens = WithoutLast(tokens)

\* C22 witness: tokenize returned for a text with unrecognized characters
\* between two tokens, which are followed by the one EOF token
C22_Witness ==
    /\ phase = "lexed"
    /\ \E p \in 2..(Len(ltext) - 1) : ltext[p] \in UnrecognizedChars /\ ltext[1] = "a" /\ ltext[Len(ltext)] = "1"
    /\ \A p \in 1..Len(ltext) : ltext[p] # "'"
    /\ TokenTypes(tokens) = <<"IDENTIFIER", "NUMBER", "EOF">>

\* C22 witness of the result of process: a statement of four tokens and EOF
C22_ProcessWitness ==
    /\ phase = "done"
    /\ Len(tokens) = 5
    /\ Len(ProcessResult(text, tokens, ast, sql).tokens) = 4

-----------------------------------------------------------------------------
(* Tokens left over after a statement                                      *)

\* the tokens from the position where Parser.parse stopped up to EOF
LeftOver == SubSeq(TokenTypes(tokens), Parse(tokens).pos + 1, Len(tokens) - 1)

\* C23: when Parser.parse returns an AST, every token before EOF was consumed:
\* the parser stopped at the EOF token.
C23_AllTokensConsumed ==
    ParseReturned => LeftOver = <<>>

\* a statement of C23 that the parser accepts with tokens left over
C23_LeftOverAccepted ==
    /\ phase = "done"
    /\ text = <<"s","h","o","w"," ","a","l","l"," ","p","r","o","d","u","c","t","s"," ","f","r","o","m"," ","i","n","v","e","n","t","o","r","y">>
    /\ LeftOver = <<"FROM", "IDENTIFIER">>
    /\ sql = <<"S","E","L","E","C","T"," ","*"," ","F","R","O","M"," ","p","r","o","d","u","c","t","s",";">>

-----------------------------------------------------------------------------
(* The cached results of an orchestrator                                   *)

\* the SQL of text t, when the parser and the generator accept it
SqlOf(t) ==
    IF Parse(Tokenize(t)).err = "" /\ ast_to_sql(Parse(Tokenize(t)).val).err = ""
    THEN ast_to_sql(Parse(Tokenize(t)).val).val
    ELSE <<>>

\* the three cached fields are those of text t: the tokens of t, the AST of t
\* (unset when t has none) and the SQL of t (unset when t has none)
DerivedFrom(self, t) ==
    /\ self.last_tokens = Tokenize(t)
    /\ self.last_ast = Parse(Tokenize(t)).val
    /\ self.last_sql = SqlOf(t)

\* all three fields unset, or all three of one text
CacheOfOneText(self) ==
    self = NewPipeline \/ \E t \in PipeTexts : DerivedFrom(self, t)

\* C24: a process call, returning or raising, on an orchestrator whose cached
\* last_tokens, last_ast and last_sql are all unset or all of one text leaves
\* them all of the text of the call; hence after any sequence of process calls
\* on a new orchestrator the three are unset or of the most recent text.
C24_CacheOfMostRecentText ==
    (ret.call = "process" /\ CacheOfOneText(ret.before)) => DerivedFrom(pipelines[1], ret.args)

\* a process call that raised in the parse stage left the tokens of its text
\* next to the AST and the SQL of the text before, and generate_sql() without
\* argument returns the SQL of that older text
C24_StaleSqlReturned ==
    /\ ret.call = "process"
    /\ ret.err = "ParseError"
    /\ DerivedFrom(ret.before, <<"s","e","l","e","c","t"," ","a"," ","f","r","o","m"," ","t">>)
    /\ ret.args = <<"s","e","l","e","c","t"," ","a","l","l">>
    /\ pipelines[1].last_tokens = Tokenize(ret.args)
    /\ pipelines[1].last_sql = <<"S","E","L","E","C","T"," ","a"," ","F","R","O","M"," ","t",";">>
    /\ Pipeline_generate_sql(pipelines[1], NoNode).val = <<"S","E","L","E","C","T"," ","a"," ","F","R","O","M"," ","t",";">>

\* the process calls that returned keep the three fields of one text
C24_ReturnedProcessCoherent ==
    (ret.call = "process" /\ ret.err = "") => DerivedFrom(pipelines[1], ret.args)

-----------------------------------------------------------------------------
(* Reading a rendered condition with the precedence of SQL                 *)

\* the conditions at the leaves of a condition tree
RECURSIVE Leaves(_)
Leaves(c) ==
    IF c.node \in {"And", "Or"} THEN Leaves(c.left) \cup Leaves(c.right) ELSE {c}

\* the rendered texts of the leaves
LeafTexts(c) == {condition_to_sql(l) : l \in Leaves(c)}

\* the truth value of a tree when the leaf rendered as x has the value asg[x]
RECURSIVE TreeValue(_, _)
TreeValue(c, asg) ==
    CASE c.node = "And" -> TreeValue(c.left, asg) /\ TreeValue(c.right, asg)
      [] c.node = "Or"  -> TreeValue(c.left, asg) \/ TreeValue(c.right, asg)
      [] OTHER          -> asg[condition_to_sql(c)]

Item(k, t) == [k |-> k, t |-> t]

\* the leaf texts that the text s starts with
LeavesAt(s, L) == {l \in L : StartsWithAt(s, 0, l)}

\* the longest of the texts of S
Longest(S) == CHOOSE l \in S : \A m \in S : Len(m) <= Len(l)

\* the text s after its first n characters
Drop(s, n) == SubSeq(s, n + 1, Len(s))

\* the rendered text as a sequence of items: a leaf condition, AND, OR, ( or )
RECURSIVE SqlItems(_, _)
SqlItems(s, L) ==
    CASE s = <<>> -> <<>>
      [] s # <<>> /\ LeavesAt(s, L) # {} ->
            <<Item("leaf", Longest(LeavesAt(s, L)))>> \o SqlItems(Drop(s, Len(Longest(LeavesAt(s, L)))), L)
      [] s # <<>> /\ LeavesAt(s, L) = {} /\ s[1] \in {"(", ")"} ->
            <<Item(s[1], <<>>)>> \o SqlItems(Drop(s, 1), L)
      [] s # <<>> /\ LeavesAt(s, L) = {} /\ StartsWithAt(s, 0, <<" ","A","N","D"," ">>) ->
            <<Item("AND", <<>>)>> \o SqlItems(Drop(s, 5), L)
      [] s # <<>> /\ LeavesAt(s, L) = {} /\ StartsWithAt(s, 0, <<" ","O","R"," ">>) ->
            <<Item("OR", <<>>)>> \o SqlItems(Drop(s, 4), L)
      [] OTHER -> <<Item("?", s)>>

\* what a reader gives: the truth value read and the items not read yet
Read(ok, val, rest) == [ok |-> ok, val |-> val, rest |-> rest]
NotRead == Read(FALSE, FALSE, <<>>)

NextIs(r, k) == r.ok /\ r.rest # <<>> /\ r.rest[1].k = k

\* the grammar of SQL conditions: OR of terms, a term an AND of factors, a
\* factor a leaf condition or a condition in parentheses; both left-associative
RECURSIVE ReadOr(_, _), ReadAnd(_, _), ReadFactor(_, _), OrLoop(_, _), AndLoop(_, _)
Both(l, r)   == IF r.ok THEN Read(TRUE, l.val /\ r.val, r.rest) ELSE NotRead
Either(l, r) == IF r.ok THEN Read(TRUE, l.val \/ r.val, r.rest) ELSE NotRead
Closed(r)    == IF NextIs(r, ")") THEN Read(TRUE, r.val, Tail(r.rest)) ELSE NotRead
ReadFactor(items, asg) ==
    CASE items = <<>> -> NotRead
      [] items # <<>> /\ items[1].k = "leaf" -> Read(TRUE, asg[items[1].t], Tail(items))
      [] items # <<>> /\ items[1].k = "("    -> Closed(ReadOr(Tail(items), asg))
      [] OTHER -> NotRead
AndLoop(l, asg) ==
    IF NextIs(l, "AND") THEN AndLoop(Both(l, ReadFactor(Tail(l.rest), asg)), asg) ELSE l
ReadAnd(items, asg) == AndLoop(ReadFactor(items, asg), asg)
OrLoop(l, asg) ==
    IF NextIs(l, "OR") THEN OrLoop(Either(l, ReadAnd(Tail(l.rest), asg)), asg) ELSE l
ReadOr(items, asg) == OrLoop(ReadAnd(items, asg), asg)

\* the condition of a statement "... WHERE condition;"
ConditionText(s) == SubSeq(s, FirstOcc(s, <<" ","W","H","E","R","E"," ">>) + 7, Len(s) - 1)

\* C25: for every condition tree that the parser builds from a chain of
\* conditions joined by AND/OR, the rendered condition, read with the
\* precedence of SQL (parentheses first, AND before OR, left-associative), has
\* the truth value of the tree under every assignment of truth values to the
\* leaf conditions.
C25_RenderingPreservesTruth ==
    (phase = "done" /\ text \in ChainInputs) =>
        \A asg \in [LeafTexts(ast.where.condition) -> BOOLEAN] :
            ReadOr(SqlItems(ConditionText(sql), LeafTexts(ast.where.condition)), asg)
                = Read(TRUE, TreeValue(ast.where.condition, asg), <<>>)

\* C25 witness: A OR B AND C was parsed to And(Or(A, B), C) and rendered with
\* the Or in parentheses; read without them the text is A OR (B AND C), which
\* is true where the tree is false (A true, C false)
C25_Witness ==
    /\ phase = "done"
    /\ text \in ChainInputs
    /\ ast.where.condition = AndCondition(OrCondition(CondA, CondB), CondC)
    /\ ConditionText(sql) = <<"(","a"," ","="," ","1"," ","O","R"," ","b"," ","B","E","T","W","E","E","N"," ","1"," ","A","N","D"," ","2",")"," ","A","N","D"," ","c"," ","I","N"," ","(","1",","," ","'","x","'",")">>
    /\ Len(SqlItems(ConditionText(sql), LeafTexts(ast.where.condition))) = 7

-----------------------------------------------------------------------------
(* A stage object run twice                                                *)

\* Lexer.tokenize called again on the Lexer of the state: self.tokens is
\* emptied, self.pos is where the first call left it
SecondTokenize == ScanFrom(ltext, pos, <<>>)

\* Parser.parse on a Parser whose pos is p
ParseAt(toks, p) ==
    IF Match(toks, p, {"SELECT"}) THEN ParseSelect(toks, p)
    ELSE IF Match(toks, p, {"COUNT", "HOW"}) THEN ParseCount(toks, p)
    ELSE IF Match(toks, p, {"SUM", "TOTAL"}) THEN ParseSum(toks, p)
    ELSE IF Match(toks, p, {"FIND"}) THEN ParseFind(toks, p)
    ELSE IF Match(toks, p, {"INSERT"}) THEN ParseInsert(toks, p)
    ELSE IF Match(toks, p, {"UPDATE"}) THEN ParseUpdate(toks, p)
    ELSE IF Match(toks, p, {"DELETE"}) THEN ParseDelete(toks, p)
    ELSE IF Match(toks, p, {"ALTER"}) THEN ParseAlter(toks, p)
    ELSE Fail("ParseError", p)

\* Parser.parse called again on the Parser of the state, whose pos is where
\* the first call left it
SecondParse == ParseAt(tokens, Parse(tokens).pos)

\* C26: tokenize() called again on the same Lexer returns the token sequence
\* of the first call, and parse() called again on the same Parser returns the
\* AST of the first call.
C26_SecondRunSameResult ==
    /\ Lexed => SecondTokenize = tokens
    /\ ParseReturned => (SecondParse.err = "" /\ SecondParse.val = ast)

\* the second tokenize() returned only the EOF token and the second parse()
\* raised ParseError, after calls that returned four tokens and a Select node
C26_SecondRunDiffers ==
    /\ phase = "done"
    /\ text = <<"s","e","l","e","c","t"," ","a"," ","f","r","o","m"," ","t">>
    /\ Len(tokens) = 5
    /\ SecondTokenize = <<EofToken(15)>>
    /\ ast.node = "Select"
    /\ SecondParse.err = "ParseError"

\* on a text of whitespace only, where the first call returns only the EOF
\* token, the second call returns the same
C26_BlankTextSame ==
    (Lexed /\ tokens = <<EofToken(pos)>>) => SecondTokenize = tokens

-----------------------------------------------------------------------------
(* parse(text=t)                                                           *)

\* the last call was parse with a text and without tokens
ParsedText == ret.call = "parse" /\ ret.args.tokens = NoArg /\ ~ret.args.text.none

\* C27: parse called with text t and no tokens tokenizes t and parses those
\* tokens, the empty text included: it returns or raises what the parser does
\* on the tokens of t, leaves them in last_tokens, and raises nothing but
\* ParseError.
C27_ParseTextTokenizesText ==
    ParsedText =>
        /\ ret.err = Parse(Tokenize(ret.args.text.val)).err
        /\ ret.err = "" => ret.val = Parse(Tokenize(ret.args.text.val)).val
        /\ pipelines[1].last_tokens = Tokenize(ret.args.text.val)
        /\ ret.err \in {"", "ParseError"}

\* parse(text="") on an orchestrator that holds the tokens of an earlier
\* tokenize call returned the AST of those tokens
C27_EmptyTextParsesCachedTokens ==
    /\ ParsedText
    /\ ret.args.text.val = <<>>
    /\ ret.before.last_tokens = Tokenize(<<"s","h","o","w"," ","u","s","e","r","s">>)
    /\ ret.err = ""
    /\ ret.val = Parse(Tokenize(<<"s","h","o","w"," ","u","s","e","r","s">>)).val

\* parse(text="") on a new orchestrator raised TypeError
C27_EmptyTextTypeError ==
    /\ ParsedText
    /\ ret.args.text.val = <<>>
    /\ ret.before = NewPipeline
    /\ ret.err = "TypeError"

\* for a text that is not empty, parse(text=t) does tokenize and parse t
C27_NonEmptyTextTokenized ==
    (ParsedText /\ ret.args.text.val # <<>>) => C27_ParseTextTokenizesText

-----------------------------------------------------------------------------
(* Quote characters inside string values                                   *)

\* the values and patterns of a condition tree
RECURSIVE ConditionValues(_)
ConditionValues(c) ==
    CASE c.node \in {"And", "Or"} -> ConditionValues(c.left) \cup ConditionValues(c.right)
      [] c.node = "Simple"  -> {c.value}
      [] c.node = "Between" -> {c.low, c.high}
      [] c.node = "In"      -> {c.values[i] : i \in 1..Len(c.values)}
      [] c.node = "Like"    -> {PyStr(c.pattern)}
      [] OTHER              -> {}

WhereValues(a) == IF a.where = NoNode THEN {} ELSE ConditionValues(a.where.condition)

\* the values and patterns of a statement
StatementValues(a) ==
    CASE a.node \in {"Select", "Delete"} -> WhereValues(a)
      [] a.node = "Update" -> {a.set_value} \cup WhereValues(a)
      [] a.node = "Insert" -> {a.values[i] : i \in 1..Len(a.values)}
      [] OTHER             -> {}

\* the string values of the statement that hold a single-quote character
ValuesWithQuote == {v \in StatementValues(ast) : v.kind = "str" /\ Contains(v.text, "'")}

\* the text v stands in the SQL between two single quotes as it is, alone or
\* between the wildcards of a LIKE pattern
CopiedBare(v) ==
    \/ Occurs(sql, Quoted(v))
    \/ Occurs(sql, Quoted(<<"%">> \o v \o <<"%">>))

\* C28: in every generated statement, no string value or LIKE pattern that
\* holds a single-quote character is copied as it is between the single quotes
\* of its SQL literal.
C28_QuoteNeverCopiedBare ==
    phase = "done" => \A v \in ValuesWithQuote : ~CopiedBare(v.text)

\* the value a'b of a double-quoted literal ends its own SQL literal
C28_LiteralEndedByValue ==
    /\ phase = "done"
    /\ text = <<"s","e","l","e","c","t"," ","a",","," ","b"," ","f","r","o","m"," ","t"," ","w","h","e","r","e"," ","x"," ","="," ","\"","a","'","b","\"">>
    /\ ValuesWithQuote = {PyStr(<<"a","'","b">>)}
    /\ sql = <<"S","E","L","E","C","T"," ","a",","," ","b"," ","F","R","O","M"," ","t"," ","W","H","E","R","E"," ","x"," ","="," ","'","a","'","b","'",";">>

-----------------------------------------------------------------------------
(* The bounds of BETWEEN                                                   *)

\* the Between conditions of the statement of the state
BetweenLeaves ==
    IF ast.node \in {"Select", "Update", "Delete"} /\ ast.where # NoNode
    THEN {c \in Leaves(ast.where.condition) : c.node = "Between"}
    ELSE {}

\* a Between condition with its bounds formatted as the values of Simple and
\* In conditions are
BetweenFormatted(c) ==
    c.column \o <<" ","B","E","T","W","E","E","N"," ">> \o format_value(c.low) \o <<" ","A","N","D"," ">> \o format_value(c.high)

\* a bound that value formatting puts between single quotes
NonNumeric(v) == format_value(v) = Quoted(v.text)

\* C29: the bounds of a Between condition are rendered with the value
\* formatting of Simple and In conditions: a bound that is not numeric stands
\* between single quotes in the SQL.
C29_BoundsFormatted ==
    phase = "done" => \A c \in BetweenLeaves : Occurs(sql, BetweenFormatted(c))

\* name between 'a' and z is rendered with both bounds bare
C29_BareBounds ==
    /\ phase = "done"
    /\ BetweenLeaves = {BetweenCondition(<<"x">>, PyStr(<<"a">>), PyStr(<<"z">>))}
    /\ EndsWith(sql, <<" ","W","H","E","R","E"," ","x"," ","B","E","T","W","E","E","N"," ","a"," ","A","N","D"," ","z",";">>)

\* with numeric bounds the rendering is that of value formatting
C29_NumericBoundsFormatted ==
    phase = "done" =>
        \A c \in BetweenLeaves :
            (~NonNumeric(c.low) /\ ~NonNumeric(c.high)) => Occurs(sql, BetweenFormatted(c))

\* numeric bounds were rendered
C29_NumericBoundsRendered ==
    /\ phase = "done"
    /\ \E c \in BetweenLeaves : ~NonNumeric(c.low) /\ ~NonNumeric(c.high)

-----------------------------------------------------------------------------
(* Column lists                                                            *)

\* the position of the token that ends the column list of the statement
ColumnListEnd ==
    Least({i \in 1..Len(tokens) : tokens[i].type \in {"FROM", "WHERE", "EOF"}})

\* the statement starts a column list: SELECT ..., DELETE COLUMN ..., or
\* ALTER TABLE t DROP COLUMN ...
HasColumnList ==
    \/ TypeAt(1) = "SELECT"
    \/ TypeAt(1) = "DELETE" /\ TypeAt(2) = "COLUMN"
    \/ <<TypeAt(1), TypeAt(2), TypeAt(3), TypeAt(4), TypeAt(5)>> = <<"ALTER", "TABLE", "IDENTIFIER", "DROP", "COLUMN">>

\* a comma of the column list that no identifier follows
DanglingComma ==
    /\ HasColumnList
    /\ \E i \in 1..(ColumnListEnd - 1) :
           tokens[i].type = "COMMA" /\ TypeAt(i + 1) # "IDENTIFIER"

\* the identifiers written in the column list, in order
WrittenColumns ==
    [k \in 1..Len(SelectSeq(SubSeq(tokens, 1, ColumnListEnd - 1), LAMBDA tok : tok.type = "IDENTIFIER")) |->
        PyStr(SelectSeq(SubSeq(tokens, 1, ColumnListEnd - 1), LAMBDA tok : tok.type = "IDENTIFIER")[k].value)]

\* C30: an AlterTable node names at least one column; a column list with a
\* comma that no identifier follows is rejected with ParseError; a Select
\* column list with commas has one entry per identifier written.
C30_ColumnListsComplete ==
    /\ (ParseReturned /\ ast.node = "AlterTable") => ast.columns # <<>>
    /\ (AfterParse /\ DanglingComma) => Rejected
    /\ (ParseReturned /\ ast.node = "Select" /\ TypeAt(3) = "COMMA") => ast.columns = WrittenColumns

\* "delete column from t" gives an AlterTable node without columns and the
\* SQL of a DROP COLUMN without a column
C30_NoColumnDropped ==
    /\ phase = "done"
    /\ text = <<"d","e","l","e","t","e"," ","c","o","l","u","m","n"," ","f","r","o","m"," ","t">>
    /\ ast.node = "AlterTable"
    /\ ast.columns = <<>>
    /\ sql = <<"A","L","T","E","R"," ","T","A","B","L","E"," ","t"," ","D","R","O","P"," ","C","O","L","U","M","N"," ",";">>

\* a column list with a dangling comma was accepted
C30_DanglingCommaAccepted ==
    /\ ParseReturned
    /\ DanglingComma

=============================================================================
